---- MODULE Spec2Model ----
(***************************************************************************)
(* A model of conversation_to_md: the adapters that turn provider exports  *)
(* into canonical conversations, the ChatGPT mapping walk, the source      *)
(* detector with the pipeline's dispatch, and the streaming JSON ingester. *)
(*                                                                         *)
(* Raw JSON values are tagged records: a Python None / JSON null is JNull, *)
(* a string is JStr(s), a number JNum(n), a list JList(q), an object       *)
(* JDict(f) with f a function from keys to values (JODict adds the key     *)
(* order where the code iterates the dict).  Free text is a sequence of    *)
(* one-character strings so that strip() and join() are computed; role,    *)
(* id and key strings are atoms.  A Python call returns Ok(v) or           *)
(* Raise(exc).                                                             *)
(***************************************************************************)
EXTENDS Integers, Sequences, FiniteSets, TLC

VARIABLES
    \* ---- adapters (adapters/*.py parse loops) ----
    adapter,        \* which adapter's parse() is running, or "none"
    apc,            \* position inside parse(): "idle" | "loop" | "walk" | "emit" | "done"
    count,          \* parse(): count, the raw conversations taken so far
    conversations,  \* the List[Conversation] built so far
    raised,         \* the exception that left parse(), or "none"
    rawConv,        \* the raw conversation being parsed (ChatGPT walk), or JNull
    current_id,     \* _walk_mapping: current_id
    visited,        \* _walk_mapping: visited, in visiting order
    messages,       \* _walk_mapping: messages
    walkHow,        \* how the walk ended: "" | "leaf" | "revisit" | "missing" | "flat" | "raise"
    \* ---- pipeline (core/pipeline.py _process_extracted, core/detect.py) ----
    files,          \* detect_source: files, the extracted directory in os.walk order
    ppc,            \* position in _process_extracted: "idle" | "detect" | "dispatch" | "parsing" | "failed"
    source,         \* _process_extracted: source, or "" before detection
    praised,        \* the exception that left _process_extracted, or "none"
    \* ---- streaming (utils/streaming.py iter_json_array) ----
    file,           \* the file iter_json_array reads
    spc,            \* position in the generator: "idle" | "start" | "stream" | "standard" | "done"
    pos,            \* how many top-level elements the running parser has passed
    yielded,        \* the items yielded to the caller so far
    fellBack,       \* whether _stream_parse has fallen back to _standard_parse
    sraised,        \* the exception that reached the caller, or "none"
    \* ---- a second call of parse() on the same directory ----
    run,            \* which call of parse() this is: 1 or 2
    previous,       \* what the first call returned or raised, or None during it
    \* ---- extraction (utils/unzip.py extract_zip) ----
    zip_path,       \* the archive: the filenames of zf.infolist(), in order
    tmp_dir,        \* the name mkdtemp gave the extraction directory
    zpc,            \* position: "idle" | "guard" | "done" | "rejected" | "finally" | "ended"
    member,         \* how many members have passed the guard
    zraised,        \* the exception that left extract_zip, or "none"
    entry,          \* the entry point of core/pipeline.py that called extract_zip, or "none"
    ondisk,         \* the extraction directories that exist
    ended,        \* how the entry point's call went: "" while it runs
    \* ---- one call of a function of utils/normalize.py ----
    fn,             \* the function called, or "none"
    arg,            \* its argument
    returned        \* what it returned or raised, or None before the call

adapterVars == <<adapter, apc, count, conversations, raised, rawConv, current_id, visited, messages, walkHow>>

pipeVars == <<files, ppc, source, praised>>

streamVars == <<file, spc, pos, yielded, fellBack, sraised>>

runVars == <<run, previous>>

zipVars == <<zip_path, tmp_dir, zpc, member, zraised, entry, ondisk, ended>>

normVars == <<fn, arg, returned>>

vars == <<adapterVars, pipeVars, streamVars, runVars, zipVars, normVars>>

----------------------------------------------------------------------------
(* Raw JSON values and Python results *)

JNull == [t |-> "null"]
JStr(s) == [t |-> "str", v |-> s]
JAtom(a) == [t |-> "atom", v |-> a]
JNum(n) == [t |-> "num", v |-> n]
\* An ISO-8601 string for the instant `epoch`, written with the zone suffix
\* `zone`: "Z", "+00:00", or "" for none.
JIso(epoch, zone) == [t |-> "iso", epoch |-> epoch, zone |-> zone]
\* A number no 32-bit integer holds: "year10000" (seconds past the year 9999),
\* "huge" (1e19, past the platform's time_t), "inf", "nan", or "bigint" (an
\* integer of four hundred digits).
JBig(kind) == [t |-> "big", kind |-> kind]
JList(q) == [t |-> "list", v |-> q]
JDict(f) == [t |-> "dict", v |-> f]
JODict(f, ord) == [t |-> "dict", v |-> f, ord |-> ord]
EmptyDict == JDict(<<>>)
EmptyList == JList(<<>>)

IsDict(x) == x.t = "dict"
IsList(x) == x.t = "list"
IsStr(x) == x.t \in {"str", "atom", "iso"}
IsNone(x) == x.t = "null"

Ok(v) == [k |-> "ok", v |-> v]
Raise(e) == [k |-> "raise", exc |-> e]
IsOk(r) == r.k = "ok"

\* The rest of a computation on the value of a call, or the call's exception.
Bind(r, F(_)) == IF IsOk(r) THEN F(r.v) ELSE r

\* Python truthiness of a raw value: None, "", 0, [] and {} are falsy.
Truthy(x) ==
    CASE x.t = "null" -> FALSE
      [] x.t = "str" -> x.v # <<>>
      [] x.t = "atom" -> x.v # ""
      [] x.t = "num" -> x.v # 0
      [] x.t = "list" -> x.v # <<>>
      [] x.t = "dict" -> DOMAIN x.v # {}
      [] OTHER -> TRUE

\* d.get(k, default) on a dict d.
Get(d, k, default) == IF k \in DOMAIN d.v THEN d.v[k] ELSE default

\* obj.get(k, default) on any value: only a dict has .get.
PyGet(obj, k, default) ==
    IF IsDict(obj) THEN Ok(Get(obj, k, default)) ELSE Raise("AttributeError")

\* a or b
PyOr(a, b) == IF Truthy(a) THEN a ELSE b

\* No second call of parse() and no extraction is under way.
IdleRun == run = 1 /\ previous = JNull

IdleZip ==
    /\ zip_path = <<>>
    /\ tmp_dir = <<>>
    /\ zpc = "idle"
    /\ member = 0
    /\ zraised = "none"
    /\ entry = "none"
    /\ ondisk = {}
    /\ ended = ""

IdleNorm == fn = "none" /\ arg = JNull /\ returned = JNull

----------------------------------------------------------------------------
(* Text: sequences of one-character strings *)

IsSpace(c) == c \in {" ", "\n", "\t"}

RECURSIVE LStrip(_)
LStrip(s) == IF s # <<>> /\ IsSpace(Head(s)) THEN LStrip(Tail(s)) ELSE s

RECURSIVE RStrip(_)
RStrip(s) ==
    IF s # <<>> /\ IsSpace(s[Len(s)]) THEN RStrip(SubSeq(s, 1, Len(s) - 1)) ELSE s

\* str.strip()
Strip(s) == RStrip(LStrip(s))

\* sep.join(parts) for a sequence of texts
RECURSIVE Join(_, _)
Join(parts, sep) ==
    IF parts = <<>> THEN <<>>
    ELSE IF Len(parts) = 1 THEN parts[1]
    ELSE parts[1] \o sep \o Join(Tail(parts), sep)

NL == <<"\n">>

\* str(x): a string is itself, anything else its printed form (never blank).
StrOf(x) ==
    CASE x.t = "str" -> x.v
      [] x.t = "atom" -> IF x.v = "" THEN <<>> ELSE <<x.v>>
      [] x.t = "iso" -> <<"T", x.zone>>
      [] x.t = "null" -> <<"N", "o", "n", "e">>
      [] x.t \in {"num", "big"} -> <<"#">>
      [] x.t = "list" -> <<"[", "]">>
      [] OTHER -> <<"{", "}">>

None == JNull

\* Hashable values can be dict keys and set members; a list or a dict cannot.
Hashable(x) == x.t \notin {"list", "dict"}

----------------------------------------------------------------------------
(* utils/normalize.py *)

\* A datetime, by its epoch second; aware when it carries a zone.
Dt(n, aware) == [t |-> "datetime", epoch |-> n, aware |-> aware]

\* The value of a string of digits.
RECURSIVE DigitsValue(_)
DigitsValue(s) ==
    IF s = <<>> THEN 0
    ELSE 10 * DigitsValue(SubSeq(s, 1, Len(s) - 1))
         + (CHOOSE d \in 0..9 : ToString(d) = s[Len(s)])

IsDigits(s) == s # <<>> /\ \A i \in 1..Len(s) : s[i] \in {ToString(d) : d \in 0..9}

\* float(timestamp): a number is itself, a string of digits its value, "inf"
\* and "nan" the floats of that name; any other string is a ValueError, a
\* list or a dict a TypeError, an integer too large for a float an
\* OverflowError.
FloatOf(x) ==
    CASE x.t = "num" -> Ok(x)
      [] x.t = "big" -> IF x.kind = "bigint" THEN Raise("OverflowError") ELSE Ok(x)
      [] x.t = "str" -> IF IsDigits(x.v) THEN Ok(JNum(DigitsValue(x.v))) ELSE Raise("ValueError")
      [] x.t = "atom" -> IF x.v \in {"inf", "nan"} THEN Ok(JBig(x.v)) ELSE Raise("ValueError")
      [] x.t = "iso" -> Raise("ValueError")
      [] OTHER -> Raise("TypeError")

\* datetime.fromtimestamp(x, tz=timezone.utc): a year outside 1..9999 and nan
\* are a ValueError, a value outside time_t an OverflowError.
FromTimestamp(x) ==
    CASE x.t = "num" -> Ok(Dt(x.v, TRUE))
      [] x.kind \in {"year10000", "nan"} -> Raise("ValueError")
      [] OTHER -> Raise("OverflowError")

\* The exceptions the try of unix_to_datetime catches.
UnixCaught == {"ValueError", "TypeError", "OSError"}

\* unix_to_datetime(timestamp)
unix_to_datetime(timestamp) ==
    IF IsNone(timestamp) THEN Ok(None)
    ELSE LET made == Bind(FloatOf(timestamp), FromTimestamp)
         IN IF ~IsOk(made) /\ made.exc \in UnixCaught THEN Ok(None) ELSE made

\* iso_to_datetime(iso_string): only a string has .replace; an unparsable
\* string fails with a ValueError, which is caught.
iso_to_datetime(iso_string) ==
    IF ~Truthy(iso_string) THEN Ok(None)
    ELSE IF iso_string.t = "iso" THEN Ok(Dt(iso_string.epoch, iso_string.zone # ""))
    ELSE IF IsStr(iso_string) THEN Ok(None)
    ELSE Raise("AttributeError")

\* a or b, for two calls that may raise; b is not evaluated when a is truthy.
OrElse(a, b) == IF ~IsOk(a) THEN a ELSE IF Truthy(a.v) THEN a ELSE b

\* The values of a sequence of results, or the first exception among them.
Collect(res) ==
    IF \E i \in 1..Len(res) : ~IsOk(res[i])
    THEN res[CHOOSE i \in 1..Len(res) : ~IsOk(res[i]) /\ \A j \in 1..(i - 1) : IsOk(res[j])]
    ELSE Ok([i \in 1..Len(res) |-> res[i].v])

\* The messages among the values of a parse loop, the None ones left out.
RECURSIVE NotNone(_)
NotNone(q) ==
    IF q = <<>> THEN <<>>
    ELSE IF IsNone(Head(q)) THEN NotNone(Tail(q))
    ELSE <<Head(q)>> \o NotNone(Tail(q))

\* The parts clean_content collects from a list: strings as they are, a dict's
\* "text" (or the dict's printed form), anything else left out.
RECURSIVE CleanParts(_)
CleanParts(q) ==
    IF q = <<>> THEN <<>>
    ELSE LET part == Head(q)
             rest == CleanParts(Tail(q))
         IN IF IsStr(part) THEN <<part>> \o rest
            ELSE IF IsDict(part) THEN <<Get(part, "text", JStr(StrOf(part)))>> \o rest
            ELSE rest

TextsOf(q) == [i \in 1..Len(q) |-> StrOf(q[i])]

clean_content(text) ==
    IF IsNone(text) THEN Ok(<<>>)
    ELSE IF IsList(text) THEN
        LET parts == CleanParts(text.v)
        IN IF \E i \in 1..Len(parts) : ~IsStr(parts[i])
           THEN Raise("TypeError")
           ELSE Ok(Strip(Join(TextsOf(parts), NL)))
    ELSE Ok(Strip(StrOf(text)))

sanitize_id(raw_id) ==
    IF IsNone(raw_id) THEN <<"unknown">>
    ELSE IF Strip(StrOf(raw_id)) = <<>> THEN <<"unknown">> ELSE Strip(StrOf(raw_id))

----------------------------------------------------------------------------
(* core/models.py *)

Attachment(type, name, reference) ==
    [t |-> "attachment", type |-> type, name |-> name, reference |-> reference]

Message(role, content, created_at, model, attachments) ==
    [t |-> "message", role |-> role, content |-> content, created_at |-> created_at,
     model |-> model, attachments |-> attachments]

Conversation(id, provider, title, created_at, model, msgs, metadata) ==
    [t |-> "conversation", id |-> id, source |-> provider, title |-> title, created_at |-> created_at,
     model |-> model, messages |-> msgs, metadata |-> metadata]

----------------------------------------------------------------------------
(* adapters/chatgpt.py *)

\* The three-backquote code fence (a backquote is written "~" here).
Fence == <<"~", "~", "~">>

\* _extract_text(parts, content_type)
chatgpt_extract_text(parts, content_type) ==
    IF content_type = JAtom("code") /\ Truthy(parts)
    THEN Bind(clean_content(parts), LAMBDA cleaned : Ok(Fence \o NL \o cleaned \o NL \o Fence))
    ELSE clean_content(parts)

\* mime.startswith("image/")
StartsWithImage(mime) == mime.t = "atom" /\ mime.v \in {"image/png", "image/jpeg"}

\* One attachment of the loop of _extract_attachments.
chatgpt_attachment(att) ==
    IF ~IsDict(att) THEN Raise("AttributeError")
    ELSE LET name == Get(att, "name", JAtom("attachment"))
             mime == Get(att, "mimeType", JAtom(""))
         IN IF ~IsStr(mime) THEN Raise("AttributeError")
            ELSE Ok(Attachment(IF StartsWithImage(mime) THEN "image" ELSE "file",
                               name, Get(att, "id", name)))

\* What a for loop iterates over: the elements of a list, the keys of a dict,
\* the characters of a string; anything else is not iterable.
IterOf(x) ==
    CASE x.t = "list" -> Ok(x.v)
      [] x.t = "dict" -> Ok(IF "ord" \in DOMAIN x THEN [i \in 1..Len(x.ord) |-> JAtom(x.ord[i])]
                            ELSE <<>>)
      [] x.t = "str" -> Ok([i \in 1..Len(x.v) |-> JStr(<<x.v[i]>>)])
      [] x.t = "atom" -> Ok(IF x.v = "" THEN <<>> ELSE <<JAtom(x.v)>>)
      [] OTHER -> Raise("TypeError")

\* _extract_attachments(raw_msg); raw_msg's metadata is a dict when it is called.
chatgpt_extract_attachments(raw_msg) ==
    Bind(IterOf(Get(Get(raw_msg, "metadata", EmptyDict), "attachments", EmptyList)),
         LAMBDA atts : Collect([i \in 1..Len(atts) |-> chatgpt_attachment(atts[i])]))

chatgpt_role_map(role) ==
    IF role.t = "atom" /\ role.v \in {"user", "assistant", "system", "tool"}
    THEN role.v
    ELSE "assistant"

\* _extract_message from "if not text" on: raw_msg is a dict here.
chatgpt_message_of(raw_msg, role, text) ==
    IF text = <<>> THEN Ok(None)
    ELSE IF ~Hashable(role) THEN Raise("TypeError")
    ELSE Bind(unix_to_datetime(Get(raw_msg, "create_time", None)), LAMBDA created_at :
         IF ~IsDict(Get(raw_msg, "metadata", EmptyDict)) THEN Raise("AttributeError")
         ELSE Bind(chatgpt_extract_attachments(raw_msg), LAMBDA atts :
              Ok(Message(chatgpt_role_map(role), text, created_at,
                         PyOr(Get(Get(raw_msg, "metadata", EmptyDict), "model_slug", None), None),
                         atts))))

\* _extract_message(node): Ok(None), Ok(a Message) or the exception raised.
chatgpt_extract_message(node) ==
    IF ~IsDict(node) THEN Raise("AttributeError")
    ELSE LET raw_msg == Get(node, "message", None)
         IN IF IsNone(raw_msg) THEN Ok(None)
            ELSE IF ~IsDict(raw_msg) THEN Raise("AttributeError")
            ELSE LET author == Get(raw_msg, "author", EmptyDict)
                     content_obj == Get(raw_msg, "content", EmptyDict)
                 IN IF ~IsDict(author) \/ ~IsDict(content_obj) THEN Raise("AttributeError")
                    ELSE Bind(chatgpt_extract_text(Get(content_obj, "parts", EmptyList),
                                                   Get(content_obj, "content_type", JAtom("text"))),
                              LAMBDA text :
                                chatgpt_message_of(raw_msg, Get(author, "role", JAtom("unknown")),
                                                   text))

\* key in mapping, for a hashable key.
InMapping(key, mapping) == key.t = "atom" /\ key.v \in DOMAIN mapping.v

\* mapping.values(), in the dict's order.
ValuesOf(mapping) == [i \in 1..Len(mapping.ord) |-> mapping.v[mapping.ord[i]]]

\* The root search of _walk_mapping from the i-th key on: Ok(the root's id),
\* Ok(None) when no node qualifies, or the exception raised.
RECURSIVE FindRootFrom(_, _)
FindRootFrom(mapping, i) ==
    IF i > Len(mapping.ord) THEN Ok(None)
    ELSE LET node == mapping.v[mapping.ord[i]]
         IN IF ~IsDict(node) THEN Raise("AttributeError")
            ELSE LET parent == Get(node, "parent", None)
                 IN IF IsNone(parent) THEN Ok(JAtom(mapping.ord[i]))
                    ELSE IF ~Hashable(parent) THEN Raise("TypeError")
                    ELSE IF ~InMapping(parent, mapping) THEN Ok(JAtom(mapping.ord[i]))
                    ELSE FindRootFrom(mapping, i + 1)

FindRoot(mapping) ==
    IF ~IsDict(mapping) THEN Raise("AttributeError") ELSE FindRootFrom(mapping, 1)

InSeq(x, q) == \E i \in 1..Len(q) : q[i] = x

\* The while condition without its cycle guard.
WalkContinues_NoGuard(cur, seen) == Truthy(cur)

\* The while condition of _walk_mapping.
WalkContinues(cur, seen) == Truthy(cur) /\ ~InSeq(cur, seen)

\* Following the last child instead of the first.
FirstChild_Last(children) ==
    IF ~Truthy(children) THEN Ok(None)
    ELSE IF children.t = "list" THEN Ok(children.v[Len(children.v)])
    ELSE Raise("TypeError")

\* children[0] if children else None
FirstChild(children) ==
    IF ~Truthy(children) THEN Ok(None)
    ELSE CASE children.t = "list" -> Ok(children.v[1])
           [] children.t = "str" -> Ok(JStr(<<children.v[1]>>))
           [] children.t = "atom" -> Ok(children)
           [] children.t = "dict" -> Raise("KeyError")
           [] OTHER -> Raise("TypeError")

\* m.created_at or 0
SortKey(m) == IF IsNone(m.created_at) THEN 0 ELSE m.created_at.epoch

\* list.sort is stable: insert each message after the ones not greater than it.
RECURSIVE InsertByKey(_, _)
InsertByKey(m, sorted) ==
    IF sorted = <<>> THEN <<m>>
    ELSE IF SortKey(Head(sorted)) <= SortKey(m)
         THEN <<Head(sorted)>> \o InsertByKey(m, Tail(sorted))
         ELSE <<m>> \o sorted

RECURSIVE StableSort(_)
StableSort(q) ==
    IF q = <<>> THEN <<>>
    ELSE InsertByKey(q[Len(q)], StableSort(SubSeq(q, 1, Len(q) - 1)))

\* messages.sort(key=lambda m: m.created_at or 0): a datetime and the int 0
\* do not compare.
SortByCreated(q) ==
    IF /\ \E i \in 1..Len(q) : IsNone(q[i].created_at)
       /\ \E i \in 1..Len(q) : ~IsNone(q[i].created_at)
    THEN Raise("TypeError")
    ELSE Ok(StableSort(q))

\* _extract_messages_flat(mapping)
chatgpt_extract_messages_flat(mapping) ==
    Bind(Collect([i \in 1..Len(mapping.ord) |-> chatgpt_extract_message(ValuesOf(mapping)[i])]),
         LAMBDA res : SortByCreated(NotNone(res)))

\* The model scan of _parse_conversation over mapping.values() from the i-th on.
RECURSIVE ScanModelFrom(_, _)
ScanModelFrom(nodes, i) ==
    IF i > Len(nodes) THEN Ok(JAtom(""))
    ELSE IF ~IsDict(nodes[i]) THEN Raise("AttributeError")
    ELSE LET msg_obj == Get(nodes[i], "message", None)
         IN IF Truthy(msg_obj) /\ IsDict(msg_obj)
            THEN LET meta == Get(msg_obj, "metadata", EmptyDict)
                 IN IF ~IsDict(meta) THEN Raise("AttributeError")
                    ELSE IF Truthy(Get(meta, "model_slug", None))
                    THEN Ok(Get(meta, "model_slug", None))
                    ELSE ScanModelFrom(nodes, i + 1)
            ELSE ScanModelFrom(nodes, i + 1)

\* The conversation-level model with the legacy field read before the default.
chatgpt_resolve_model_LegacyFirst(raw, mapping) ==
    LET model == PyOr(Get(raw, "model_slug", None),
                      PyOr(Get(raw, "default_model_slug", None), JAtom("")))
    IN IF Truthy(model) THEN Ok(model) ELSE ScanModelFrom(ValuesOf(mapping), 1)

\* The conversation-level model of _parse_conversation.
chatgpt_resolve_model(raw, mapping) ==
    LET model == PyOr(Get(raw, "default_model_slug", None),
                      PyOr(Get(raw, "model_slug", None), JAtom("")))
    IN IF Truthy(model) THEN Ok(model) ELSE ScanModelFrom(ValuesOf(mapping), 1)

\* "Set model on all assistant messages if they don't have one".
chatgpt_backfill(msgs, model) ==
    [i \in 1..Len(msgs) |->
        IF msgs[i].role = "assistant" /\ ~Truthy(msgs[i].model) /\ Truthy(model)
        THEN [msgs[i] EXCEPT !.model = model]
        ELSE msgs[i]]

\* ", ".join(raw["plugin_ids"]) when raw.get("plugin_ids") is truthy.
chatgpt_plugins(raw) ==
    LET ids == Get(raw, "plugin_ids", None)
    IN IF ~Truthy(ids) THEN Ok(None)
       ELSE LET it == IterOf(ids)
            IN IF ~IsOk(it) THEN it
               ELSE IF \E i \in 1..Len(it.v) : ~IsStr(it.v[i]) THEN Raise("TypeError")
               ELSE Ok(JList(it.v))

MetadataOf(model, plugins) ==
    (IF Truthy(model) THEN [model |-> model] ELSE <<>>)
    @@ (IF IsNone(plugins) THEN <<>> ELSE [plugins |-> plugins])

\* _parse_conversation after the walk: the Conversation it returns, or the
\* exception raised.  Nothing here looks at whether msgs is empty.
chatgpt_finish_conversation(raw, msgs) ==
    Bind(chatgpt_resolve_model(raw, Get(raw, "mapping", EmptyDict)), LAMBDA model :
    Bind(chatgpt_plugins(raw), LAMBDA plugins :
         Ok(Conversation(
                sanitize_id(PyOr(Get(raw, "id", None), Get(raw, "conversation_id", None))),
                "chatgpt",
                PyOr(Get(raw, "title", None), JAtom("Untitled")),
                unix_to_datetime(Get(raw, "create_time", None)).v,
                model,
                chatgpt_backfill(msgs, model),
                MetadataOf(model, plugins)))))

----------------------------------------------------------------------------
(* adapters/chatgpt.py: parse() and _parse_conversation, the walk one loop
   iteration per step *)

ResetWalk ==
    /\ rawConv' = JNull
    /\ current_id' = None
    /\ visited' = <<>>
    /\ messages' = <<>>
    /\ walkHow' = ""

\* An exception leaves parse(): nothing is returned.
Throw(exc) ==
    /\ raised' = exc
    /\ apc' = "done"

\* _walk_mapping falls back to _extract_messages_flat(mapping), whose result
\* is flat.
TakeFlat(raw, flat) ==
    IF ~IsOk(flat)
    THEN Throw(flat.exc) /\ ResetWalk
    ELSE /\ rawConv' = raw
         /\ messages' = flat.v
         /\ walkHow' = "flat"
         /\ apc' = "emit"
         /\ UNCHANGED <<raised, current_id, visited>>

\* _walk_mapping after its root search, whose result is root.
EnterWalk(raw, root) ==
    IF ~IsOk(root)
    THEN Throw(root.exc) /\ ResetWalk
    ELSE IF IsNone(root.v)
    THEN TakeFlat(raw, chatgpt_extract_messages_flat(Get(raw, "mapping", EmptyDict)))
    ELSE /\ rawConv' = raw
         /\ current_id' = root.v
         /\ visited' = <<>>
         /\ messages' = <<>>
         /\ walkHow' = ""
         /\ apc' = "walk"
         /\ UNCHANGED raised

\* parse() takes the next raw conversation and _parse_conversation runs up to
\* the walk loop of _walk_mapping (or through _extract_messages_flat).
ChatgptBegin(raw) ==
    /\ adapter = "chatgpt"
    /\ UNCHANGED <<pipeVars, streamVars, runVars, zipVars, normVars>>
    /\ apc = "loop"
    /\ count' = count + 1
    /\ UNCHANGED <<adapter, conversations>>
    /\ IF ~IsDict(raw) \/ ~Truthy(Get(raw, "mapping", EmptyDict))
       THEN /\ ResetWalk
            /\ UNCHANGED <<apc, raised>>
       ELSE IF ~IsOk(unix_to_datetime(Get(raw, "create_time", None)))
       THEN Throw(unix_to_datetime(Get(raw, "create_time", None)).exc) /\ ResetWalk
       ELSE EnterWalk(raw, FindRoot(Get(raw, "mapping", EmptyDict)))

\* node = mapping.get(current_id), when current_id is a key of the mapping.
WalkNode == Get(rawConv, "mapping", EmptyDict).v[current_id.v]

\* The loop body from _extract_message(node) on: msg is its result, child the
\* result of children[0] if children else None.
VisitNode(msg, child) ==
    IF ~IsOk(msg)
    THEN Throw(msg.exc) /\ UNCHANGED <<current_id, messages, walkHow>>
    ELSE IF ~IsOk(child)
    THEN Throw(child.exc) /\ UNCHANGED <<current_id, messages, walkHow>>
    ELSE /\ messages' = IF IsNone(msg.v) THEN messages ELSE Append(messages, msg.v)
         /\ current_id' = child.v
         /\ UNCHANGED <<apc, raised, walkHow>>

\* One iteration of the while loop of _walk_mapping.
WalkStep ==
    /\ apc = "walk"
    /\ UNCHANGED <<pipeVars, streamVars, runVars, zipVars, normVars>>
    /\ WalkContinues(current_id, visited)
    /\ UNCHANGED <<adapter, count, conversations, rawConv>>
    /\ IF ~Hashable(current_id)
       THEN Throw("TypeError") /\ UNCHANGED <<current_id, visited, messages, walkHow>>
       ELSE /\ visited' = Append(visited, current_id)
            /\ IF ~InMapping(current_id, Get(rawConv, "mapping", EmptyDict)) \/ IsNone(WalkNode)
               THEN /\ walkHow' = "missing"
                    /\ apc' = "emit"
                    /\ UNCHANGED <<raised, current_id, messages>>
               ELSE VisitNode(chatgpt_extract_message(WalkNode),
                              FirstChild(Get(WalkNode, "children", EmptyList)))

\* The while condition fails: _walk_mapping returns messages.
WalkStop ==
    /\ apc = "walk"
    /\ UNCHANGED <<pipeVars, streamVars, runVars, zipVars, normVars>>
    /\ ~WalkContinues(current_id, visited)
    /\ walkHow' = IF Truthy(current_id) THEN "revisit" ELSE "leaf"
    /\ apc' = "emit"
    /\ UNCHANGED <<adapter, count, conversations, raised, rawConv, current_id, visited, messages>>

\* parse() appends the conversation _parse_conversation returned.
AppendConversation(conv) ==
    IF ~IsOk(conv)
    THEN Throw(conv.exc) /\ UNCHANGED <<conversations, rawConv, current_id, visited, messages, walkHow>>
    ELSE /\ conversations' = Append(conversations, conv.v)
         /\ apc' = "loop"
         /\ ResetWalk
         /\ UNCHANGED raised

\* The rest of _parse_conversation, and parse() appending what it returns.
ChatgptEmit ==
    /\ adapter = "chatgpt"
    /\ UNCHANGED <<pipeVars, streamVars, runVars, zipVars, normVars>>
    /\ apc = "emit"
    /\ UNCHANGED <<adapter, count>>
    /\ AppendConversation(chatgpt_finish_conversation(rawConv, messages))

\* The input is exhausted: parse() returns conversations.
ParseReturn ==
    /\ apc = "loop"
    /\ UNCHANGED <<pipeVars, streamVars, runVars, zipVars, normVars>>
    /\ apc' = "done"
    /\ UNCHANGED <<adapter, count, conversations, raised, rawConv, current_id, visited, messages, walkHow>>

----------------------------------------------------------------------------
(* adapters/claude.py *)

\* What one block of a content array appends to parts: one string, or nothing.
claude_block_part(block) ==
    IF IsDict(block)
    THEN LET type == Get(block, "type", None)
         IN CASE type = JAtom("text") -> <<Get(block, "text", JStr(<<>>))>>
              [] type = JAtom("tool_use") ->
                    <<JStr(<<"[Tool call: ">> \o StrOf(Get(block, "name", JAtom("unknown")))
                           \o <<"]">>)>>
              [] type = JAtom("tool_result") -> <<JStr(<<"[Tool result]">>)>>
              [] OTHER -> <<>>
    ELSE IF IsStr(block) THEN <<block>>
    ELSE <<>>

RECURSIVE claude_block_parts(_)
claude_block_parts(content) ==
    IF content = <<>> THEN <<>>
    ELSE claude_block_part(Head(content)) \o claude_block_parts(Tail(content))

\* "\n".join(parts).strip(): join takes strings only.
JoinStrip(parts) ==
    IF \E i \in 1..Len(parts) : ~IsStr(parts[i])
    THEN Raise("TypeError")
    ELSE Ok(Strip(Join(TextsOf(parts), NL)))

\* The text of _parse_message: "text" first, then "content".
claude_text(raw_msg) ==
    IF "text" \in DOMAIN raw_msg.v THEN clean_content(raw_msg.v["text"])
    ELSE IF "content" \in DOMAIN raw_msg.v
    THEN LET content == raw_msg.v["content"]
         IN IF IsList(content) THEN JoinStrip(claude_block_parts(content.v))
            ELSE clean_content(content)
    ELSE Ok(<<>>)

claude_role_map(sender) ==
    IF sender = JAtom("human") THEN "user"
    ELSE IF sender = JAtom("system") THEN "system"
    ELSE "assistant"

\* One attachment of the first loop of _extract_attachments; a non-dict is
\* skipped (None).
claude_attachment(att) ==
    IF ~IsDict(att) THEN Ok(None)
    ELSE LET name == PyOr(Get(att, "file_name", None), Get(att, "name", JAtom("attachment")))
             file_type == Get(att, "file_type", JAtom("unknown"))
         IN IF ~IsStr(file_type) THEN Raise("AttributeError")
            ELSE Ok(Attachment(IF StartsWithImage(file_type) THEN "image" ELSE "file",
                               name, Get(att, "id", name)))

\* One entry of the second loop, over "files".
claude_file(att) ==
    IF ~IsDict(att) THEN Ok(None)
    ELSE LET name == PyOr(Get(att, "file_name", None), Get(att, "name", JAtom("file")))
         IN Ok(Attachment("file", name, Get(att, "id", name)))

\* _extract_attachments(raw_msg)
claude_extract_attachments(raw_msg) ==
    Bind(IterOf(Get(raw_msg, "attachments", EmptyList)), LAMBDA atts :
    Bind(Collect([i \in 1..Len(atts) |-> claude_attachment(atts[i])]), LAMBDA first :
    Bind(IterOf(Get(raw_msg, "files", EmptyList)), LAMBDA raw_files :
         Ok(NotNone(first) \o NotNone([i \in 1..Len(raw_files) |-> claude_file(raw_files[i]).v])))))

\* _parse_message(raw_msg): Ok(None), Ok(a Message) or the exception raised.
claude_parse_message(raw_msg) ==
    IF ~IsDict(raw_msg) THEN Ok(None)
    ELSE IF ~Hashable(Get(raw_msg, "sender", JAtom(""))) THEN Raise("TypeError")
    ELSE Bind(claude_text(raw_msg), LAMBDA text :
         IF text = <<>> THEN Ok(None)
         ELSE Bind(iso_to_datetime(Get(raw_msg, "created_at", None)), LAMBDA created_at :
              Bind(claude_extract_attachments(raw_msg), LAMBDA atts :
                   Ok(Message(claude_role_map(Get(raw_msg, "sender", JAtom(""))), text,
                              created_at, PyOr(Get(raw_msg, "model", None), None), atts)))))

\* The model scan of _parse_conversation over raw_messages from the i-th on.
RECURSIVE claude_scan_model(_, _)
claude_scan_model(raw_messages, i) ==
    IF i > Len(raw_messages) THEN JAtom("")
    ELSE IF IsDict(raw_messages[i]) /\ Truthy(Get(raw_messages[i], "model", None))
    THEN Get(raw_messages[i], "model", None)
    ELSE claude_scan_model(raw_messages, i + 1)

\* The conversation-level model, or the first message-level one.
claude_model(raw, raw_messages) ==
    PyOr(PyOr(Get(raw, "model", None), JAtom("")), claude_scan_model(raw_messages, 1))

claude_metadata(raw, model) ==
    LET project == Get(raw, "project", None)
    IN (IF Truthy(model) THEN [model |-> model] ELSE <<>>)
       @@ (IF Truthy(project) /\ IsDict(project)
           THEN [project |-> Get(project, "name", JAtom(""))] ELSE <<>>)

\* A _parse_conversation that sorts its messages by creation time.
claude_messages_Sorted(res) == StableSort(NotNone(res))

\* The loop of _parse_conversation over raw_messages: the messages in the
\* order of the results res of _parse_message, the None ones left out.
claude_messages(res) == NotNone(res)

\* _parse_conversation(raw): Ok(None), Ok(a Conversation) or the exception
\* raised.  Nothing here looks at whether messages is empty.
claude_parse_conversation(raw) ==
    IF ~IsDict(raw) THEN Ok(None)
    ELSE Bind(iso_to_datetime(Get(raw, "created_at", None)), LAMBDA created_at :
         Bind(IterOf(Get(raw, "chat_messages", EmptyList)), LAMBDA raw_messages :
         Bind(Collect([i \in 1..Len(raw_messages) |-> claude_parse_message(raw_messages[i])]),
              LAMBDA res :
                Ok(Conversation(
                    sanitize_id(PyOr(Get(raw, "uuid", None), Get(raw, "id", None))),
                    "claude",
                    PyOr(Get(raw, "name", None),
                         PyOr(Get(raw, "title", None), JAtom("Untitled"))),
                    created_at, claude_model(raw, raw_messages), claude_messages(res),
                    claude_metadata(raw, claude_model(raw, raw_messages)))))))

\* if conv is not None: conversations.append(conv)
AppendIfAny(conv) ==
    IF ~IsOk(conv) THEN Throw(conv.exc) /\ UNCHANGED conversations
    ELSE /\ conversations' = IF IsNone(conv.v) THEN conversations
                             ELSE Append(conversations, conv.v)
         /\ UNCHANGED <<apc, raised>>

\* One iteration of parse()'s loop over iter_json_array.
ClaudeStep(raw) ==
    /\ adapter = "claude"
    /\ UNCHANGED <<pipeVars, streamVars, runVars, zipVars, normVars>>
    /\ apc = "loop"
    /\ count' = count + 1
    /\ UNCHANGED <<adapter, rawConv, current_id, visited, messages, walkHow>>
    /\ AppendIfAny(claude_parse_conversation(raw))

----------------------------------------------------------------------------
(* adapters/gemini.py, adapters/grok.py, adapters/generic.py: the JSON paths *)

\* str.lower() on the role strings of the inputs.
Lower(a) ==
    CASE a = "User" -> "user"
      [] a = "USER" -> "user"
      [] a = "Model" -> "model"
      [] a = "Grok" -> "grok"
      [] a = "Human" -> "human"
      [] a = "SuperUser" -> "superuser"
      [] OTHER -> a

\* role_raw.lower() of a string: free text and timestamps are no role names.
RoleLower(role_raw) == IF role_raw.t = "atom" THEN Lower(role_raw.v) ELSE "#"

\* "user" in s, for a lowered role string s.
ContainsUser(s) == s \in {"user", "superuser"}

\* A message with the defaults of the dataclass: no model, no attachments.
PlainMessage(role, content, created_at) == Message(role, content, created_at, None, <<>>)

\* data if isinstance(data, list) else [data]
AsList(data) == IF IsList(data) THEN data.v ELSE <<data>>

gemini_role_map(role) ==
    CASE role \in {"user", "0"} -> "user"
      [] role = "system" -> "system"
      [] OTHER -> "assistant"

\* What one element of "parts" appends to text_parts.
gemini_part(p) ==
    IF IsStr(p) THEN <<p>>
    ELSE IF IsDict(p) /\ "text" \in DOMAIN p.v THEN <<p.v["text"]>>
    ELSE <<>>

RECURSIVE gemini_parts(_)
gemini_parts(parts) ==
    IF parts = <<>> THEN <<>> ELSE gemini_part(Head(parts)) \o gemini_parts(Tail(parts))

\* The text of _parse_json_message: "text", then "content", then "parts".
gemini_text(raw_msg) ==
    IF "text" \in DOMAIN raw_msg.v THEN clean_content(raw_msg.v["text"])
    ELSE IF "content" \in DOMAIN raw_msg.v THEN clean_content(raw_msg.v["content"])
    ELSE IF "parts" \in DOMAIN raw_msg.v /\ IsList(raw_msg.v["parts"])
    THEN JoinStrip(gemini_parts(raw_msg.v["parts"].v))
    ELSE Ok(<<>>)

\* raw_msg.get("role", "") or raw_msg.get("author", "")
gemini_role_raw(raw_msg) ==
    PyOr(Get(raw_msg, "role", JAtom("")), Get(raw_msg, "author", JAtom("")))

\* _parse_json_message(raw_msg)
gemini_parse_json_message(raw_msg) ==
    IF ~IsDict(raw_msg) THEN Ok(None)
    ELSE IF ~IsStr(gemini_role_raw(raw_msg)) THEN Raise("AttributeError")
    ELSE Bind(gemini_text(raw_msg), LAMBDA text :
         IF text = <<>> THEN Ok(None)
         ELSE Bind(OrElse(iso_to_datetime(Get(raw_msg, "created_at", None)),
                          unix_to_datetime(Get(raw_msg, "create_time", None))),
                   LAMBDA created_at :
                     Ok(PlainMessage(gemini_role_map(RoleLower(gemini_role_raw(raw_msg))),
                                     text, created_at))))

\* _parse_json_conversation(raw)
gemini_parse_json_conversation(raw) ==
    IF ~IsDict(raw) THEN Ok(None)
    ELSE Bind(OrElse(iso_to_datetime(Get(raw, "created_at", None)),
                     unix_to_datetime(Get(raw, "create_time", None))), LAMBDA created_at :
         Bind(IterOf(PyOr(Get(raw, "messages", EmptyList), Get(raw, "turns", EmptyList))),
              LAMBDA raw_messages :
         Bind(Collect([i \in 1..Len(raw_messages) |-> gemini_parse_json_message(raw_messages[i])]),
              LAMBDA res :
                IF NotNone(res) = <<>> THEN Ok(None)
                ELSE Ok(Conversation(
                        sanitize_id(PyOr(Get(raw, "id", None),
                                         PyOr(Get(raw, "conversation_id", None),
                                              Get(raw, "thread_id", None)))),
                        "gemini",
                        PyOr(Get(raw, "title", None),
                             PyOr(Get(raw, "name", None), JAtom("Untitled"))),
                        created_at, None, NotNone(res), <<>>)))))

\* _parse_json_file of a file that holds the JSON value data.
gemini_parse_json_file(data) ==
    Bind(Collect([i \in 1..Len(AsList(data)) |-> gemini_parse_json_conversation(AsList(data)[i])]),
         LAMBDA res : Ok(NotNone(res)))

grok_role_map(role) ==
    CASE role \in {"user", "human"} -> "user"
      [] role = "system" -> "system"
      [] OTHER -> "assistant"

\* The text of _parse_message: "text", then "content", then "message".
grok_text(raw_msg) ==
    IF "text" \in DOMAIN raw_msg.v THEN clean_content(raw_msg.v["text"])
    ELSE IF "content" \in DOMAIN raw_msg.v THEN clean_content(raw_msg.v["content"])
    ELSE IF "message" \in DOMAIN raw_msg.v THEN clean_content(raw_msg.v["message"])
    ELSE Ok(<<>>)

\* role, then sender, then author
grok_role_raw(raw_msg) ==
    PyOr(Get(raw_msg, "role", JAtom("")),
         PyOr(Get(raw_msg, "sender", JAtom("")), Get(raw_msg, "author", JAtom(""))))

\* _parse_message(raw_msg)
grok_parse_message(raw_msg) ==
    IF ~IsDict(raw_msg) THEN Ok(None)
    ELSE IF ~IsStr(grok_role_raw(raw_msg)) THEN Raise("AttributeError")
    ELSE Bind(grok_text(raw_msg), LAMBDA text :
         IF text = <<>> THEN Ok(None)
         ELSE Bind(OrElse(iso_to_datetime(Get(raw_msg, "created_at", None)),
                          unix_to_datetime(PyOr(Get(raw_msg, "timestamp", None),
                                                Get(raw_msg, "create_time", None)))),
                   LAMBDA created_at :
                     Ok(PlainMessage(grok_role_map(RoleLower(grok_role_raw(raw_msg))),
                                     text, created_at))))

\* _parse_conversation(raw)
grok_parse_conversation(raw) ==
    IF ~IsDict(raw) THEN Ok(None)
    ELSE Bind(OrElse(iso_to_datetime(Get(raw, "created_at", None)),
                     unix_to_datetime(PyOr(Get(raw, "create_time", None),
                                           Get(raw, "timestamp", None)))), LAMBDA created_at :
         Bind(IterOf(PyOr(Get(raw, "messages", EmptyList), Get(raw, "turns", EmptyList))),
              LAMBDA raw_messages :
         Bind(Collect([i \in 1..Len(raw_messages) |-> grok_parse_message(raw_messages[i])]),
              LAMBDA res :
                IF NotNone(res) = <<>> THEN Ok(None)
                ELSE Ok(Conversation(
                        sanitize_id(PyOr(Get(raw, "id", None),
                                         PyOr(Get(raw, "conversation_id", None),
                                              Get(raw, "thread_id", None)))),
                        "grok",
                        PyOr(Get(raw, "title", None),
                             PyOr(Get(raw, "name", None), JAtom("Grok Conversation"))),
                        created_at, None, NotNone(res), <<>>)))))

\* m.get("timestamp") or m.get("created_at") or ""
grok_sort_key(m) ==
    PyOr(Get(m, "timestamp", None), PyOr(Get(m, "created_at", None), JAtom("")))

\* The position of a sort key among keys of its own type: numbers by value,
\* strings as Python compares them ("" first; equal instants by zone suffix).
KeyRank(k) ==
    CASE k.t = "num" -> k.v
      [] k.t = "iso" -> 3 * k.epoch + (CASE k.zone = "" -> 0 [] k.zone = "Z" -> 2 [] OTHER -> 1)
      [] OTHER -> -1

RECURSIVE grok_insert(_, _)
grok_insert(m, sorted) ==
    IF sorted = <<>> THEN <<m>>
    ELSE IF KeyRank(grok_sort_key(Head(sorted))) <= KeyRank(grok_sort_key(m))
         THEN <<Head(sorted)>> \o grok_insert(m, Tail(sorted))
         ELSE <<m>> \o sorted

RECURSIVE grok_stable_sort(_)
grok_stable_sort(q) ==
    IF q = <<>> THEN <<>>
    ELSE grok_insert(q[Len(q)], grok_stable_sort(SubSeq(q, 1, Len(q) - 1)))

\* msgs.sort(key=...): a number and a string do not compare.
grok_sort(msgs) ==
    IF \E i, j \in 1..Len(msgs) :
          (grok_sort_key(msgs[i]).t = "num") # (grok_sort_key(msgs[j]).t = "num")
    THEN Raise("TypeError")
    ELSE Ok(grok_stable_sort(msgs))

\* The conversation ids of the dicts of raw_messages, in order of first
\* appearance: the keys of grouped.
RECURSIVE grok_group_keys(_, _)
grok_group_keys(raw_messages, seen) ==
    IF raw_messages = <<>> THEN seen
    ELSE LET msg == Head(raw_messages)
             cid == Get(msg, "conversation_id", JAtom("unknown"))
         IN IF IsDict(msg) /\ ~InSeq(cid, seen)
            THEN grok_group_keys(Tail(raw_messages), Append(seen, cid))
            ELSE grok_group_keys(Tail(raw_messages), seen)

\* grouped[cid]
RECURSIVE grok_group(_, _)
grok_group(raw_messages, cid) ==
    IF raw_messages = <<>> THEN <<>>
    ELSE LET msg == Head(raw_messages)
         IN IF IsDict(msg) /\ Get(msg, "conversation_id", JAtom("unknown")) = cid
            THEN <<msg>> \o grok_group(Tail(raw_messages), cid)
            ELSE grok_group(Tail(raw_messages), cid)

\* The first truthy timestamp of msgs, from the i-th on.
RECURSIVE grok_first_ts(_, _)
grok_first_ts(msgs, i) ==
    IF i > Len(msgs) THEN Ok(None)
    ELSE LET ts == OrElse(iso_to_datetime(Get(msgs[i], "created_at", None)),
                          unix_to_datetime(Get(msgs[i], "timestamp", None)))
         IN IF ~IsOk(ts) THEN ts
            ELSE IF Truthy(ts.v) THEN ts
            ELSE grok_first_ts(msgs, i + 1)

\* One iteration of the loop over grouped.items(): Ok(None) when the group
\* yields no message.
grok_flat_conversation(cid, group) ==
    Bind(grok_sort(group), LAMBDA msgs :
    Bind(Collect([i \in 1..Len(msgs) |-> grok_parse_message(msgs[i])]), LAMBDA res :
         IF NotNone(res) = <<>> THEN Ok(None)
         ELSE Bind(grok_first_ts(msgs, 1), LAMBDA first_ts :
                   Ok(Conversation(sanitize_id(cid), "grok", JAtom("Grok Conversation"),
                                   first_ts, None, NotNone(res), <<>>)))))

\* _parse_flat_messages(raw_messages)
grok_parse_flat_messages(raw_messages) ==
    IF \E i \in 1..Len(raw_messages) :
          IsDict(raw_messages[i])
          /\ ~Hashable(Get(raw_messages[i], "conversation_id", JAtom("unknown")))
    THEN Raise("TypeError")
    ELSE Bind(Collect([i \in 1..Len(grok_group_keys(raw_messages, <<>>)) |->
                         grok_flat_conversation(
                             grok_group_keys(raw_messages, <<>>)[i],
                             grok_group(raw_messages, grok_group_keys(raw_messages, <<>>)[i]))]),
              LAMBDA res : Ok(NotNone(res)))

\* _parse_json_file of a file that holds the JSON value data.
grok_parse_json_file(data) ==
    IF AsList(data) # <<>> /\ IsDict(AsList(data)[1])
    THEN IF /\ "conversation_id" \in DOMAIN AsList(data)[1].v
            /\ "messages" \notin DOMAIN AsList(data)[1].v
         THEN grok_parse_flat_messages(AsList(data))
         ELSE Bind(Collect([i \in 1..Len(AsList(data)) |-> grok_parse_conversation(AsList(data)[i])]),
                   LAMBDA res : Ok(NotNone(res)))
    ELSE Ok(<<>>)

\* str(role_raw).lower(), for a string or a number or None.
generic_role_key(role_raw) ==
    IF role_raw.t = "null" THEN "none" ELSE RoleLower(role_raw)

\* A role map whose default is assistant for every unmapped role.
generic_role_map_AlwaysAssistant(key) ==
    CASE key \in {"user", "human"} -> "user"
      [] key = "system" -> "system"
      [] OTHER -> "assistant"

generic_role_map(key) ==
    CASE key \in {"user", "human"} -> "user"
      [] key \in {"assistant", "ai", "bot", "model", "grok"} -> "assistant"
      [] key = "system" -> "system"
      [] OTHER -> IF ContainsUser(key) THEN "user" ELSE "assistant"

generic_content_keys == <<"content", "text", "message", "body", "value">>

\* The content loop of _extract_generic_message from the i-th key on; text is
\* the value assigned so far.
RECURSIVE generic_text(_, _, _)
generic_text(raw_msg, i, text) ==
    IF i > Len(generic_content_keys) THEN Ok(text)
    ELSE IF generic_content_keys[i] \in DOMAIN raw_msg.v
    THEN Bind(clean_content(raw_msg.v[generic_content_keys[i]]), LAMBDA cleaned :
              IF cleaned # <<>> THEN Ok(cleaned)
              ELSE generic_text(raw_msg, i + 1, cleaned))
    ELSE generic_text(raw_msg, i + 1, text)

\* role, then sender, then author, then from
generic_role_raw(raw_msg) ==
    PyOr(Get(raw_msg, "role", JAtom("")),
         PyOr(Get(raw_msg, "sender", JAtom("")),
              PyOr(Get(raw_msg, "author", JAtom("")), Get(raw_msg, "from", JAtom("")))))

\* _extract_generic_message(raw_msg)
generic_extract_message(raw_msg) ==
    IF ~IsDict(raw_msg)
    THEN IF IsStr(raw_msg) THEN Ok(PlainMessage("unknown", StrOf(raw_msg), None)) ELSE Ok(None)
    ELSE Bind(generic_text(raw_msg, 1, <<>>), LAMBDA text :
         IF text = <<>> THEN Ok(None)
         ELSE Bind(OrElse(iso_to_datetime(PyOr(Get(raw_msg, "created_at", None),
                                               Get(raw_msg, "timestamp_str", None))),
                          unix_to_datetime(PyOr(Get(raw_msg, "timestamp", None),
                                                Get(raw_msg, "create_time", None)))),
                   LAMBDA created_at :
                     Ok(PlainMessage(generic_role_map(generic_role_key(generic_role_raw(raw_msg))),
                                     text, created_at))))

generic_message_keys == <<"messages", "turns", "chat_messages", "entries", "data", "items">>

\* The first key of message_keys, from the i-th on, under which raw holds a list.
RECURSIVE generic_raw_messages(_, _)
generic_raw_messages(raw, i) ==
    IF i > Len(generic_message_keys) THEN None
    ELSE IF generic_message_keys[i] \in DOMAIN raw.v /\ IsList(raw.v[generic_message_keys[i]])
    THEN raw.v[generic_message_keys[i]]
    ELSE generic_raw_messages(raw, i + 1)

Digits == <<"0", "1", "2", "3", "4", "5", "6", "7", "8", "9">>

\* str(index)
IndexStr(index) == IF index < 10 THEN <<Digits[index + 1]>> ELSE <<Digits[2], Digits[index - 9]>>

\* _extract_generic_conversation(raw, fallback_title, index)
generic_extract_conversation(raw, fallback_title, index) ==
    IF IsNone(generic_raw_messages(raw, 1)) THEN Ok(None)
    ELSE Bind(Collect([i \in 1..Len(generic_raw_messages(raw, 1).v) |->
                         generic_extract_message(generic_raw_messages(raw, 1).v[i])]),
              LAMBDA res :
         IF NotNone(res) = <<>> THEN Ok(None)
         ELSE Bind(OrElse(iso_to_datetime(Get(raw, "created_at", None)),
                          unix_to_datetime(PyOr(Get(raw, "create_time", None),
                                                Get(raw, "timestamp", None)))),
                   LAMBDA created_at :
                     Ok(Conversation(
                         sanitize_id(PyOr(Get(raw, "id", None),
                                          PyOr(Get(raw, "uuid", None),
                                               PyOr(Get(raw, "conversation_id", None),
                                                    JStr(IndexStr(index)))))),
                         "unknown",
                         PyOr(Get(raw, "title", None),
                              PyOr(Get(raw, "name", None),
                                   PyOr(Get(raw, "subject", None), fallback_title))),
                         created_at, None, NotNone(res), <<>>))))

\* _try_json of a file named fallback_title that holds the JSON value data.
generic_try_json(data, fallback_title) ==
    IF ~IsList(data) /\ ~IsDict(data) THEN Ok(<<>>)
    ELSE Bind(Collect([i \in 1..Len(AsList(data)) |->
                         IF ~IsDict(AsList(data)[i]) THEN Ok(None)
                         ELSE generic_extract_conversation(AsList(data)[i], fallback_title, i - 1)]),
              LAMBDA res : Ok(NotNone(res)))

----------------------------------------------------------------------------
(* The mapping trees of the walk: three nodes in the order n1, n2, n3.  A
   parent is null, an id outside the mapping, or n1; a children list holds up
   to two ids, of the mapping or not; a message is absent, has blank text, or
   has a text that names its node. *)

TreeIds == <<"n1", "n2", "n3">>
TreeIdSet == {"n1", "n2", "n3"}
Missing == "zz"
TreeParents(n) ==
    CASE n = "n1" -> {JNull, JAtom("n1")}
      [] n = "n2" -> {JAtom(Missing), JAtom("n1")}
      [] OTHER -> {JNull, JAtom("n1")}
TreeChildren(n) ==
    {<<>>, <<JAtom("n1")>>, <<JAtom("n2")>>, <<JAtom(Missing)>>}
    \cup (IF n = "n3" THEN {}
          ELSE {<<JAtom("n3")>>, <<JAtom("n2"), JAtom("n3")>>, <<JAtom("n3"), JAtom("n2")>>})
TreeKinds(n) == IF n = "n2" THEN {"none", "blank", "text"} ELSE {"none", "text"}

NodeText(n) == CASE n = "n1" -> <<"1">> [] n = "n2" -> <<"2">> [] OTHER -> <<"3">>
NodeRole(n) == IF n = "n2" THEN "assistant" ELSE "user"

RawMessage(role, content_type, parts) ==
    JDict([author |-> JDict([role |-> JAtom(role)]),
           content |-> JDict([content_type |-> JAtom(content_type), parts |-> JList(parts)])])

TreeMessage(n, kind) ==
    CASE kind = "none" -> JNull
      [] kind = "blank" -> RawMessage(NodeRole(n), "text", <<JStr(<<" ">>)>>)
      [] OTHER -> RawMessage(NodeRole(n), "text", <<JStr(NodeText(n))>>)

TreeNodes(n) ==
    {JDict([parent |-> p, children |-> JList(c), message |-> TreeMessage(n, k)]) :
        p \in TreeParents(n), c \in TreeChildren(n), k \in TreeKinds(n)}

TreeConvs ==
    {JDict([mapping |-> JODict([n1 |-> a, n2 |-> b, n3 |-> c], TreeIds)]) :
        a \in TreeNodes("n1"), b \in TreeNodes("n2"), c \in TreeNodes("n3")}

\* A conversations.json holding one conversation with such a mapping.
ChatgptTakeTree ==
    /\ count = 0
    /\ \E raw \in TreeConvs : ChatgptBegin(raw)

InitWalk ==
    /\ adapter = "chatgpt"
    /\ apc = "loop"
    /\ count = 0
    /\ conversations = <<>>
    /\ raised = "none"
    /\ rawConv = JNull
    /\ current_id = None
    /\ visited = <<>>
    /\ messages = <<>>
    /\ walkHow = ""
    /\ files = <<>>
    /\ ppc = "idle"
    /\ source = ""
    /\ praised = "none"
    /\ file = JNull
    /\ spc = "idle"
    /\ pos = 0
    /\ yielded = <<>>
    /\ fellBack = FALSE
    /\ sraised = "none"
    /\ IdleRun
    /\ IdleZip
    /\ IdleNorm

NextWalk ==
    \/ ChatgptTakeTree
    \/ WalkStep
    \/ WalkStop
    \/ ChatgptEmit
    \/ ParseReturn

SpecWalk == InitWalk /\ [][NextWalk]_vars

\* conversations.extend(convos) and the return of parse(), or the exception
\* that leaves it.
ExtendAndReturn(convos) ==
    IF ~IsOk(convos) THEN Throw(convos.exc) /\ UNCHANGED conversations
    ELSE /\ conversations' = conversations \o convos.v
         /\ apc' = "done"
         /\ UNCHANGED raised

\* parse() of gemini over a directory whose only file is a JSON file holding
\* data: the HTML fallback finds no file.
GeminiParse(data) ==
    /\ adapter = "gemini"
    /\ UNCHANGED <<pipeVars, streamVars, runVars, zipVars, normVars>>
    /\ apc = "loop"
    /\ UNCHANGED <<adapter, count, rawConv, current_id, visited, messages, walkHow>>
    /\ ExtendAndReturn(gemini_parse_json_file(data))

\* parse() of grok over a directory whose only file is a JSON file holding data.
GrokParse(data) ==
    /\ adapter = "grok"
    /\ UNCHANGED <<pipeVars, streamVars, runVars, zipVars, normVars>>
    /\ apc = "loop"
    /\ UNCHANGED <<adapter, count, rawConv, current_id, visited, messages, walkHow>>
    /\ ExtendAndReturn(grok_parse_json_file(data))

\* parse() of generic over a directory whose only file is export.json holding
\* data: the HTML and text strategies find no file.
GenericParse(data) ==
    /\ adapter = "generic"
    /\ UNCHANGED <<pipeVars, streamVars, runVars, zipVars, normVars>>
    /\ apc = "loop"
    /\ UNCHANGED <<adapter, count, rawConv, current_id, visited, messages, walkHow>>
    /\ ExtendAndReturn(generic_try_json(data, JAtom("export")))

----------------------------------------------------------------------------
(* The exports the adapters are run on: syntactically valid JSON, with
   well-formed records and with records whose fields are missing, null or of
   another type. *)

\* The most raw conversations a file holds.
MaxItems == 2

Txt(c) == JStr(<<c>>)

GoodMsgs ==
    { JDict([role |-> JAtom("user"), content |-> JStr(<<"h", "i">>)]),
      JDict([role |-> JAtom("Model"), text |-> JStr(<<" ", "y", "o">>)]),
      JDict([sender |-> JAtom("human"), text |-> Txt("q"), created_at |-> JIso(5, "Z")]),
      JDict([sender |-> JAtom("human"), text |-> Txt("n"), created_at |-> JIso(6, "")]),
      JDict([sender |-> JAtom("assistant"),
             content |-> JList(<<JDict([type |-> JAtom("text"), text |-> Txt("a")]),
                                 JDict([type |-> JAtom("tool_use"), name |-> JAtom("t")])>>)]) }

\* Raw messages with no text: they are dropped.
EmptyMsgs ==
    { JDict([role |-> JAtom("user"), content |-> JStr(<<>>)]),
      JDict([role |-> JAtom("assistant"), text |-> Txt(" ")]),
      JDict([role |-> JAtom("user"), content |-> JNull]),
      JNull }

\* Raw messages that are a bare string, or have a field of another type.
OddMsgs ==
    { JStr(<<>>),
      Txt("s"),
      JDict([role |-> JNum(5), content |-> Txt("x")]),
      JDict([role |-> JAtom("user"), content |-> Txt("c"), created_at |-> JNum(7)]),
      JDict([sender |-> JAtom("human"), text |-> Txt("f"), attachments |-> JNull]) }

RawMsgs == GoodMsgs \cup EmptyMsgs \cup OddMsgs

\* The message lists of the raw conversations: none, one, or a well-formed
\* message followed by any one.
\* Two messages whose created_at values are out of chronological order.
LaterFirst ==
    <<JDict([sender |-> JAtom("assistant"), text |-> Txt("2"), created_at |-> JIso(9, "Z")]),
      JDict([sender |-> JAtom("tool"), text |-> Txt("1"), created_at |-> JIso(3, "Z")])>>

RawMsgLists ==
    {<<>>} \cup {<<m>> : m \in RawMsgs}
    \cup {<<JDict([role |-> JAtom("user"), content |-> JStr(<<"h", "i">>)]), m>> : m \in RawMsgs}
    \cup {LaterFirst}

\* Raw conversations that hold their messages under key, and records that are
\* no conversation.
RawConvs(key) ==
    { JDict((key :> JList(q)) @@ [id |-> JAtom("c1"), title |-> JAtom("T")]) : q \in RawMsgLists }
    \cup { JDict((key :> JNull) @@ [uuid |-> JAtom("u"), name |-> JAtom("n")]),
           JDict((key :> JList(<<Txt("s")>>)) @@ [created_at |-> JNum(7)]),
           JDict([uuid |-> JAtom("u"), name |-> JAtom("n")]),
           JNull, JNum(3) }

\* The messages of a flat Grok export.
FlatMsgs ==
    { JDict([conversation_id |-> JAtom(c), role |-> JAtom("user"), text |-> Txt(x)] @@ ts) :
        c \in {"a", "b"}, x \in {"1", "2"},
        ts \in {<<>>, [timestamp |-> JNum(1)], [timestamp |-> JNum(2)],
                [created_at |-> JIso(1, "Z")]} }
    \cup { JDict([conversation_id |-> JAtom("a"), text |-> JStr(<<>>)]),
           JDict([conversation_id |-> JList(<<>>), text |-> Txt("1")]),
           JDict([conversation_id |-> JAtom("a"), role |-> JAtom("user"), text |-> Txt("3"),
                  timestamp |-> JNum(1), created_at |-> JIso(5, "Z")]),
           JDict([conversation_id |-> JAtom("a"), role |-> JAtom("user"), text |-> Txt("4"),
                  timestamp |-> JNum(2), created_at |-> JIso(1, "Z")]) }

\* The JSON values a file holds: an array of up to MaxItems items, or one item.
RECURSIVE SeqsUpTo(_, _)
SeqsUpTo(S, n) ==
    IF n = 0 THEN {<<>>}
    ELSE LET shorter == SeqsUpTo(S, n - 1)
         IN shorter \cup {Append(q, x) : q \in shorter, x \in S}

FilesOf(items) == {JList(q) : q \in SeqsUpTo(items, MaxItems)} \cup items

\* A ChatGPT mapping node.
Node(parent, children, message) ==
    JDict([parent |-> parent, children |-> children, message |-> message])

\* A one-node or two-node ChatGPT conversation around the message msg.
ChatgptConv(msg, children) ==
    JDict([id |-> JAtom("c1"), title |-> JAtom("T"), create_time |-> JNum(1),
           mapping |-> JODict([n1 |-> Node(JNull, children, msg),
                               n2 |-> Node(JAtom("n1"), EmptyList,
                                           RawMessage("assistant", "text", <<Txt("2")>>))],
                              <<"n1", "n2">>)])

\* The create_time values of the messages of a mapping with no root; null
\* stands for a message without one.
FlatTimes ==
    { <<a, b>> : a, b \in {JNull, JNum(1), JNum(2)} }
    \cup { <<JNum(2), JNum(2), JNum(1)>>, <<JNum(1), JNull, JNum(1)>> }

\* The k-th node of such a mapping: its parent is the next key, the last one's
\* the first, so that every parent is a key of the mapping.
FlatNode(times, k) ==
    Node(JAtom(TreeIds[(k % Len(times)) + 1]), EmptyList,
         JDict([author |-> JDict([role |-> JAtom("user")]),
                content |-> JDict([content_type |-> JAtom("text"),
                                   parts |-> JList(<<Txt(TreeIds[k])>>)]),
                create_time |-> times[k]]))

\* A conversation whose mapping has no root.
FlatConv(times) ==
    JDict([id |-> JAtom("c5"),
           mapping |-> JODict([k \in {TreeIds[i] : i \in 1..Len(times)} |->
                                 FlatNode(times, CHOOSE i \in 1..Len(times) : TreeIds[i] = k)],
                              SubSeq(TreeIds, 1, Len(times)))])

FlatConvs == { FlatConv(times) : times \in FlatTimes }

ChatgptConvs ==
    FlatConvs \cup
    { ChatgptConv(msg, children) :
        msg \in { RawMessage("user", "text", <<Txt("1")>>),
                  RawMessage("user", "text", <<JStr(<<>>)>>),
                  RawMessage("user", "code", <<JStr(<<>>)>>),
                  RawMessage("tool", "code", <<Txt("x")>>),
                  JNull,
                  JDict([author |-> JNull,
                         content |-> JDict([parts |-> JList(<<Txt("1")>>)])]),
                  JDict([author |-> JDict([role |-> JAtom("user")]), content |-> JNull]),
                  JDict([author |-> JDict([role |-> JAtom("user")]),
                         content |-> JDict([parts |-> JList(<<Txt("1")>>)]),
                         metadata |-> JNull]) },
        children \in {EmptyList, JList(<<JAtom("n2")>>), JNull} }
    \cup { JDict([id |-> JAtom("c2"),
                  mapping |-> JODict([n1 |-> JNull], <<"n1">>)]),
           JDict([id |-> JAtom("c3"), mapping |-> JNull]),
           JDict([id |-> JAtom("c4"), mapping |-> EmptyDict]),
           JNull }

ChatgptTake == count < MaxItems /\ \E raw \in ChatgptConvs : ChatgptBegin(raw)

\* A message of role role with the text text whose metadata holds model_slug.
SlugMessage(role, text, model_slug) ==
    JDict([author |-> JDict([role |-> JAtom(role)]),
           content |-> JDict([content_type |-> JAtom("text"), parts |-> JList(<<Txt(text)>>)]),
           metadata |-> JDict([model_slug |-> model_slug])])

\* A conversation with the two model fields and three nodes: a user message, its
\* first child (an assistant message) and a second child the walk does not
\* visit.  null stands for a field that is absent.
ModelConv(default_model_slug, model_slug, own) ==
    JDict([id |-> JAtom("c1"),
           default_model_slug |-> default_model_slug,
           model_slug |-> model_slug,
           mapping |->
             JODict([n1 |-> Node(JNull, JList(<<JAtom("n2"), JAtom("n3")>>),
                                 SlugMessage("user", "1", own[1])),
                     n2 |-> Node(JAtom("n1"), EmptyList, SlugMessage("assistant", "2", own[2])),
                     n3 |-> Node(JAtom("n1"), EmptyList, SlugMessage("assistant", "3", own[3]))],
                    TreeIds)])

ModelConvs ==
    { ModelConv(d, l, <<a, b, c>>) :
        d \in {JNull, JAtom(""), JAtom("d")}, l \in {JNull, JAtom("l")},
        a \in {JNull, JAtom("m1")}, b \in {JNull, JAtom("m2")}, c \in {JNull, JAtom("m3")} }

\* A conversations.json holding one such conversation.
ChatgptTakeModel ==
    /\ count = 0
    /\ \E raw \in ModelConvs : ChatgptBegin(raw)

NextModel ==
    \/ ChatgptTakeModel
    \/ WalkStep
    \/ WalkStop
    \/ ChatgptEmit
    \/ ParseReturn

SpecModel == InitWalk /\ [][NextModel]_vars

ClaudeTake == count < MaxItems /\ \E raw \in RawConvs("chat_messages") : ClaudeStep(raw)

GeminiTake == \E data \in FilesOf(RawConvs("messages")) : GeminiParse(data)

GrokTake == \E data \in FilesOf(RawConvs("messages") \cup FlatMsgs) : GrokParse(data)

\* Raw messages that name their role under one of the four keys, in several
\* spellings, or under a later key behind an empty or null earlier one.
RoleMsgs ==
    { JDict((k :> JAtom(r)) @@ [content |-> JStr(<<"h", "i">>)]) :
        k \in {"role", "sender", "author", "from"},
        r \in {"user", "Human", "ai", "bot", "Model", "grok", "system", "SuperUser", "tool"} }
    \cup { JDict([role |-> JAtom(""), sender |-> JAtom("human"), content |-> JStr(<<"h", "i">>)]),
            JDict([role |-> JNull, author |-> JAtom(""), from |-> JAtom("USER"),
                   content |-> JStr(<<"h", "i">>)]),
            JDict([sender |-> JAtom("bot"), from |-> JAtom("user"), content |-> JStr(<<"h", "i">>)]),
            JDict([content |-> JStr(<<"h", "i">>)]) }

\* A file that holds one conversation object with the one message m.
RoleFile(m) == JDict([messages |-> JList(<<m>>)])

GenericTake ==
    \E data \in FilesOf(RawConvs("messages") \cup RawConvs("chat_messages"))
                   \cup {RoleFile(m) : m \in RoleMsgs} : GenericParse(data)

Adapters == {"chatgpt", "claude", "gemini", "grok", "generic"}

InitAdapters ==
    /\ adapter \in Adapters
    /\ apc = "loop"
    /\ count = 0
    /\ conversations = <<>>
    /\ raised = "none"
    /\ rawConv = JNull
    /\ current_id = None
    /\ visited = <<>>
    /\ messages = <<>>
    /\ walkHow = ""
    /\ files = <<>>
    /\ ppc = "idle"
    /\ source = ""
    /\ praised = "none"
    /\ file = JNull
    /\ spc = "idle"
    /\ pos = 0
    /\ yielded = <<>>
    /\ fellBack = FALSE
    /\ sraised = "none"
    /\ IdleRun
    /\ IdleZip
    /\ IdleNorm

NextAdapters ==
    \/ ChatgptTake
    \/ WalkStep
    \/ WalkStop
    \/ ChatgptEmit
    \/ ClaudeTake
    \/ GeminiTake
    \/ GrokTake
    \/ GenericTake
    \/ ParseReturn

SpecAdapters == InitAdapters /\ [][NextAdapters]_vars

\* The flat Grok exports: a list of messages that each name their conversation.
FlatFiles ==
    { JList(q) : q \in SeqsUpTo({m \in FlatMsgs : Hashable(m.v.conversation_id)}, MaxItems)
                        \ {<<>>} }

\* parse() of grok on a directory whose only file holds a flat list.
GrokTakeFlat == \E data \in FlatFiles : GrokParse(data)

\* Conversation objects that carry their messages under messages or turns,
\* named by id or by conversation_id.
ConvObjects ==
    { JDict((key :> JList(q)) @@ (name :> JAtom("a"))) :
        key \in {"messages", "turns"}, name \in {"id", "conversation_id"},
        q \in { <<>>,
                 <<JDict([role |-> JAtom("user"), content |-> JStr(<<"h", "i">>)])>>,
                 <<JDict([role |-> JAtom("user"), content |-> JStr(<<"h", "i">>)]),
                   JDict([role |-> JAtom("grok"), text |-> Txt("y")])>> } }

ConvFiles == { JList(q) : q \in SeqsUpTo(ConvObjects, MaxItems) \ {<<>>} }

\* parse() of grok on a directory whose only file holds conversation objects.
GrokTakeConvs == \E data \in ConvFiles : GrokParse(data)

InitGrok == InitAdapters /\ adapter = "grok"

NextGrok == GrokTakeFlat \/ GrokTakeConvs

SpecGrok == InitGrok /\ [][NextGrok]_vars

----------------------------------------------------------------------------
(* core/detect.py *)

\* A file of the extracted directory: its path relative to the directory and
\* what it holds.
File(path, content) == [t |-> "file", path |-> path, content |-> content]

\* A file that holds the JSON text of doc, size characters long up to its last
\* non-blank character.
JsonText(doc, size) == [kind |-> "json", doc |-> doc, size |-> size]

\* A file that holds something else: "truncated" (a JSON text cut short),
\* "deep" (a hundred thousand opening brackets), "binary" (bytes that are not
\* UTF-8), "unreadable" (open fails), "prose" (plain text).
Other(kind) == [kind |-> kind]

\* An HTML file whose first 10,000 characters hold the lowercase words words.
Html(words) == [kind |-> "html", words |-> words]

\* str.lower() on the relative paths of the inputs.
PathLower(path) ==
    CASE path = "Gemini Apps/chat.html" -> "gemini apps/chat.html"
      [] path = "Takeout/GEMINI/log.json" -> "takeout/gemini/log.json"
      [] OTHER -> path

\* word in lowered, for a lowered relative path.
PathMentions(word, lowered) ==
    CASE word = "gemini" -> lowered \in {"gemini apps/chat.html", "takeout/gemini/log.json"}
      [] word = "grok" -> lowered \in {"grok/chats.json"}
      [] OTHER -> FALSE

\* Path.suffix
Suffix(path) ==
    CASE path \in {"conversations.json", "data.json", "export/data.json",
                   "Takeout/GEMINI/log.json", "grok/chats.json"} -> ".json"
      [] path \in {"Gemini Apps/chat.html", "page.html"} -> ".html"
      [] OTHER -> ".txt"

\* The characters _probe_json_schema reads.
ProbeWindow == 200000

\* The leading items _probe_json_schema inspects.
ProbeItems == 5

\* open(filepath, encoding="utf-8") and fh.read(n): the text read, cut when the
\* file is longer, or the exception raised.
ReadText(content, n) ==
    CASE content.kind = "unreadable" -> Raise("OSError")
      [] content.kind = "binary" -> Raise("UnicodeDecodeError")
      [] content.kind = "json" ->
            Ok([content EXCEPT !.size = IF content.size > n THEN n ELSE content.size]
               @@ [cut |-> content.size > n])
      [] OTHER -> Ok(content @@ [cut |-> FALSE])

\* stripped.startswith("[") or stripped.startswith("{")
StartsLikeJson(raw) ==
    CASE raw.kind = "json" -> IsList(raw.doc) \/ IsDict(raw.doc)
      [] raw.kind \in {"truncated", "deep"} -> TRUE
      [] OTHER -> FALSE

\* json.loads(raw): a text cut short does not parse; the decoder recurses once
\* per nesting level.
json_loads(raw) ==
    CASE raw.kind = "json" -> IF raw.cut THEN Raise("JSONDecodeError") ELSE Ok(raw.doc)
      [] raw.kind = "deep" -> Raise("RecursionError")
      [] OTHER -> Raise("JSONDecodeError")

\* items[:n]
Take(items, n) == SubSeq(items, 1, IF Len(items) < n THEN Len(items) ELSE n)

\* "grok" in s.lower(), for the key and value strings of the inputs.
WordMentionsGrok(s) == s \in {"grok", "Grok", "grok-2", "grok_mode"}

\* "grok" in json.dumps(item).lower()
RECURSIVE DumpsMentionsGrok(_)
DumpsMentionsGrok(item) ==
    CASE item.t = "atom" -> WordMentionsGrok(item.v)
      [] item.t = "list" -> \E i \in 1..Len(item.v) : DumpsMentionsGrok(item.v[i])
      [] item.t = "dict" ->
            \E k \in DOMAIN item.v : WordMentionsGrok(k) \/ DumpsMentionsGrok(item.v[k])
      [] OTHER -> FALSE

\* The loop of _probe_json_schema over items, from the i-th on.
RECURSIVE ProbeItemsFrom(_, _)
ProbeItemsFrom(items, i) ==
    IF i > Len(items) THEN "unknown"
    ELSE LET item == items[i]
         IN IF ~IsDict(item) THEN ProbeItemsFrom(items, i + 1)
            ELSE IF "mapping" \in DOMAIN item.v /\ IsDict(item.v["mapping"]) THEN "chatgpt"
            ELSE IF "chat_messages" \in DOMAIN item.v THEN "claude"
            ELSE IF "uuid" \in DOMAIN item.v /\ "name" \in DOMAIN item.v THEN "claude"
            ELSE IF DumpsMentionsGrok(item) THEN "grok"
            ELSE IF "sender" \in DOMAIN item.v /\ "conversation_id" \in DOMAIN item.v THEN "grok"
            ELSE ProbeItemsFrom(items, i + 1)

\* The exceptions the try of _probe_json_schema catches.
ProbeCaught == {"JSONDecodeError", "OSError", "UnicodeDecodeError"}

\* What the try block leaves in data, or the exception it raises.
ProbeLoad(content) ==
    Bind(ReadText(content, ProbeWindow), LAMBDA raw :
         IF ~StartsLikeJson(raw) THEN Ok(None) ELSE json_loads(raw))

\* The except clause and the rest of _probe_json_schema; data is None where
\* the try block returned "unknown".
ProbeResult(data) ==
    IF ~IsOk(data) THEN IF data.exc \in ProbeCaught THEN Ok("unknown") ELSE data
    ELSE IF IsNone(data.v) THEN Ok("unknown")
    ELSE Ok(ProbeItemsFrom(Take(AsList(data.v), ProbeItems), 1))

\* _probe_json_schema(filepath)
probe_json_schema(f) == ProbeResult(ProbeLoad(f.content))

\* _probe_html_for_gemini(filepath): the file is read with errors="replace".
probe_html_for_gemini(f) ==
    /\ f.content.kind = "html"
    /\ f.content.words \cap {"gemini", "bard", "google ai"} # {}

\* The schema loop of detect_source from the i-th file on: Ok(the first result
\* other than "unknown"), Ok("unknown") when there is none, or the exception.
RECURSIVE ProbeFilesFrom(_, _)
ProbeFilesFrom(fs, i) ==
    IF i > Len(fs) THEN Ok("unknown")
    ELSE IF Suffix(fs[i].path) # ".json" THEN ProbeFilesFrom(fs, i + 1)
    ELSE Bind(probe_json_schema(fs[i]), LAMBDA result :
              IF result # "unknown" THEN Ok(result) ELSE ProbeFilesFrom(fs, i + 1))

\* detect_source with the two path checks exchanged.
detect_source_GrokFirst(fs) ==
    IF \E i \in 1..Len(fs) : PathMentions("grok", PathLower(fs[i].path)) THEN Ok("grok")
    ELSE IF \E i \in 1..Len(fs) : PathMentions("gemini", PathLower(fs[i].path))
    THEN Ok("gemini")
    ELSE Bind(ProbeFilesFrom(fs, 1), LAMBDA result :
              IF result # "unknown" THEN Ok(result)
              ELSE IF \E i \in 1..Len(fs) :
                         Suffix(fs[i].path) = ".html" /\ probe_html_for_gemini(fs[i])
              THEN Ok("gemini")
              ELSE Ok("unknown"))

\* detect_source(extracted_dir) on a directory that holds the files fs
detect_source(fs) ==
    IF \E i \in 1..Len(fs) : PathMentions("gemini", PathLower(fs[i].path)) THEN Ok("gemini")
    ELSE IF \E i \in 1..Len(fs) : PathMentions("grok", PathLower(fs[i].path)) THEN Ok("grok")
    ELSE Bind(ProbeFilesFrom(fs, 1), LAMBDA result :
              IF result # "unknown" THEN Ok(result)
              ELSE IF \E i \in 1..Len(fs) :
                         Suffix(fs[i].path) = ".html" /\ probe_html_for_gemini(fs[i])
              THEN Ok("gemini")
              ELSE Ok("unknown"))

----------------------------------------------------------------------------
(* core/pipeline.py: _process_extracted up to the adapter call *)

\* The adapter registry; the value names the module whose parse is registered.
ADAPTERS ==
    [chatgpt |-> "chatgpt", claude |-> "claude", gemini |-> "gemini", grok |-> "grok",
     unknown |-> "generic"]

\* The parameters of each adapter's parse.
ParseParams(a) ==
    IF a \in {"gemini", "grok"} THEN {"extracted_dir"}
    ELSE {"extracted_dir", "progress_callback"}

\* source = detect_source(extracted_dir)
DetectResult(result) ==
    IF ~IsOk(result)
    THEN /\ praised' = result.exc
         /\ ppc' = "failed"
         /\ UNCHANGED source
    ELSE /\ source' = result.v
         /\ ppc' = "dispatch"
         /\ UNCHANGED praised

DetectSource ==
    /\ ppc = "detect"
    /\ DetectResult(detect_source(files))
    /\ UNCHANGED <<files, adapterVars, streamVars, runVars, zipVars, normVars>>

\* adapter = ADAPTERS.get(source, generic.parse) and the call
\* adapter(extracted_dir, progress_callback=log): a keyword that names no
\* parameter of the callee is a TypeError.
Dispatch ==
    /\ ppc = "dispatch"
    /\ LET callee == IF source \in DOMAIN ADAPTERS THEN ADAPTERS[source] ELSE "generic"
       IN IF "progress_callback" \in ParseParams(callee)
          THEN /\ adapter' = callee
               /\ apc' = "loop"
               /\ ppc' = "parsing"
               /\ UNCHANGED praised
          ELSE /\ praised' = "TypeError"
               /\ ppc' = "failed"
               /\ UNCHANGED <<adapter, apc>>
    /\ UNCHANGED <<files, source, streamVars, runVars, zipVars, normVars>>
    /\ UNCHANGED <<count, conversations, raised, rawConv, current_id, visited, messages, walkHow>>

----------------------------------------------------------------------------
(* The extracted directories detection is run on *)

\* The most files a directory holds.
MaxFiles == 2

\* A ChatGPT export, a Claude export (two shapes), a Grok export (two shapes)
\* and a document with no marker.
ChatgptDoc == JList(<<JDict([title |-> JAtom("T"), mapping |-> JDict([n1 |-> JNull])])>>)
ClaudeDoc == JList(<<JDict([chat_messages |-> EmptyList])>>)
ClaudeDocByName == JList(<<JDict([uuid |-> JAtom("u"), name |-> JAtom("n")])>>)
GrokDoc == JList(<<JDict([sender |-> JAtom("user"), conversation_id |-> JAtom("a")])>>)
GrokDocByWord == JDict([model |-> JAtom("grok-2")])
PlainDoc == JList(<<JDict([foo |-> JNum(1)])>>)

\* What a .json file holds.
JsonContents ==
    { JsonText(doc, size) :
        doc \in {ChatgptDoc, ClaudeDoc, PlainDoc}, size \in {100, ProbeWindow, ProbeWindow + 1} }
    \cup { JsonText(doc, 100) :
             doc \in { ClaudeDocByName, GrokDoc, GrokDocByWord, JNum(5),
                       JList(<<JNum(5)>> \o ChatgptDoc.v),
                       JList(ClaudeDoc.v \o ChatgptDoc.v),
                       JList(GrokDoc.v \o ChatgptDoc.v),
                       JList(<<JDict([mapping |-> JNull])>>) } }
    \cup { Other(kind) : kind \in {"truncated", "deep", "binary", "unreadable", "prose"} }

DirFiles ==
    { File(path, content) :
        path \in {"conversations.json", "export/data.json"}, content \in JsonContents }
    \cup { File(path, JsonText(doc, 100)) :
             path \in {"Takeout/GEMINI/log.json", "grok/chats.json"},
             doc \in {ChatgptDoc, PlainDoc} }
    \cup { File("data.json", JsonText(doc, 100)) :
             doc \in {ChatgptDoc, ClaudeDoc, GrokDoc, PlainDoc} }
    \cup { File("Gemini Apps/chat.html", Html({"gemini"})),
           File("page.html", Html({"bard"})), File("page.html", Html({})),
           File("page.html", Other("unreadable")),
           File("notes.txt", Other("prose")) }

\* The directories between the extracted directory and the file, outermost
\* first.
PathDirs(path) ==
    CASE path = "export/data.json" -> <<"export">>
      [] path = "grok/chats.json" -> <<"grok">>
      [] path = "Gemini Apps/chat.html" -> <<"Gemini Apps">>
      [] path = "Takeout/GEMINI/log.json" -> <<"Takeout", "GEMINI">>
      [] OTHER -> <<>>

\* The directory d is the directory e or lies above it.
DirAbove(d, e) == Len(d) <= Len(e) /\ SubSeq(e, 1, Len(d)) = d

\* _list_files(directory): os.walk goes top-down, so the files of a directory
\* are listed together and before the files of its subdirectories, and the
\* files under one directory are listed without a file from elsewhere between
\* them.  The order of the names within a directory, and of sibling
\* directories, is the order the file system lists them in: any.
IsWalkOrder(fs) ==
    \A i, k \in 1..Len(fs) :
        i < k =>
          /\ ~(PathDirs(fs[k].path) # PathDirs(fs[i].path)
                 /\ DirAbove(PathDirs(fs[k].path), PathDirs(fs[i].path)))
          /\ \A j \in i..k : \A n \in 1..Len(PathDirs(fs[i].path)) :
                 LET d == SubSeq(PathDirs(fs[i].path), 1, n)
                 IN DirAbove(d, PathDirs(fs[k].path)) => DirAbove(d, PathDirs(fs[j].path))

\* The directories: up to MaxFiles files, no path twice, in an order
\* _list_files can give.
Dirs ==
    { fs \in SeqsUpTo(DirFiles, MaxFiles) :
        /\ \A i, j \in 1..Len(fs) : i # j => fs[i].path # fs[j].path
        /\ IsWalkOrder(fs) }

InitPipeline ==
    /\ files \in Dirs
    /\ ppc = "detect"
    /\ source = ""
    /\ praised = "none"
    /\ adapter = "none"
    /\ apc = "idle"
    /\ count = 0
    /\ conversations = <<>>
    /\ raised = "none"
    /\ rawConv = JNull
    /\ current_id = None
    /\ visited = <<>>
    /\ messages = <<>>
    /\ walkHow = ""
    /\ file = JNull
    /\ spc = "idle"
    /\ pos = 0
    /\ yielded = <<>>
    /\ fellBack = FALSE
    /\ sraised = "none"
    /\ IdleRun
    /\ IdleZip
    /\ IdleNorm

NextPipeline == DetectSource \/ Dispatch

SpecPipeline == InitPipeline /\ [][NextPipeline]_vars

----------------------------------------------------------------------------
(* utils/streaming.py *)

\* Files above this threshold (bytes) use streaming parsing.
STREAMING_THRESHOLD == 50 * 1024 * 1024

\* What a file holds: a complete top-level array of the elements elems; a
\* single top-level value doc; an array cut short after the complete elements
\* elems ("truncated"); a hundred thousand opening brackets ("deep"); bytes
\* that are not UTF-8 ("binary"); nothing that can be opened ("unreadable"); or
\* a complete array of the elements elems and a last object that holds the
\* literal NaN ("nonfinite"), which json.load reads and the incremental parser
\* rejects.
ArrayText(elems) == [kind |-> "array", elems |-> elems]
ValueText(doc) == [kind |-> "value", doc |-> doc]
TruncatedText(elems) == [kind |-> "truncated", elems |-> elems]
BrokenText(kind) == [kind |-> kind, elems |-> <<>>]
NonFiniteText(elems) == [kind |-> "nonfinite", elems |-> elems]

\* The top-level array elements the incremental parser completes before the
\* text ends or stops being JSON; a top-level value that is no array has none
\* under the prefix "item".
StreamElems(text) == IF text.kind = "value" THEN <<>> ELSE text.elems

\* Whether the incremental parser raises once it has passed those elements.
StreamFails(text) == text.kind \in {"truncated", "deep", "binary", "unreadable", "nonfinite"}

\* json.load(fh) of _standard_parse: the value, or the exception raised.
json_load(text) ==
    CASE text.kind = "array" -> Ok(JList(text.elems))
      [] text.kind = "value" -> Ok(text.doc)
      [] text.kind = "nonfinite" ->
            Ok(JList(Append(text.elems, JDict([id |-> JAtom("c"), score |-> JBig("nan")]))))
      [] text.kind = "truncated" -> Raise("JSONDecodeError")
      [] text.kind = "deep" -> Raise("RecursionError")
      [] text.kind = "binary" -> Raise("UnicodeDecodeError")
      [] OTHER -> Raise("OSError")

\* The exceptions the try of _standard_parse catches.
StandardCaught == {"JSONDecodeError", "OSError", "UnicodeDecodeError"}

\* What _standard_parse iterates over once data is loaded.
StandardElems(data) ==
    IF IsList(data) THEN data.v ELSE IF IsDict(data) THEN <<data>> ELSE <<>>

\* iter_json_array chooses the parser by the size of the file.
IterJsonArray ==
    /\ spc = "start"
    /\ spc' = IF file.size > STREAMING_THRESHOLD THEN "stream" ELSE "standard"
    /\ UNCHANGED <<file, pos, yielded, fellBack, sraised, adapterVars, pipeVars, runVars, zipVars, normVars>>

\* _stream_parse: the parser completes the next element; a dict is yielded.
StreamYield ==
    /\ spc = "stream"
    /\ pos < Len(StreamElems(file.text))
    /\ file.text.kind # "unreadable"
    /\ pos' = pos + 1
    /\ yielded' = IF IsDict(StreamElems(file.text)[pos + 1])
                  THEN Append(yielded, StreamElems(file.text)[pos + 1])
                  ELSE yielded
    /\ UNCHANGED <<file, spc, fellBack, sraised, adapterVars, pipeVars, runVars, zipVars, normVars>>

\* _stream_parse: open or the parser raises; the except clause hands over to
\* _standard_parse.
StreamFallback ==
    /\ spc = "stream"
    /\ StreamFails(file.text)
    /\ pos = Len(StreamElems(file.text)) \/ file.text.kind = "unreadable"
    /\ spc' = "standard"
    /\ fellBack' = TRUE
    /\ pos' = 0
    /\ UNCHANGED <<file, yielded, sraised, adapterVars, pipeVars, runVars, zipVars, normVars>>

\* _stream_parse: the parser reaches the end of the text.
StreamEnd ==
    /\ spc = "stream"
    /\ ~StreamFails(file.text)
    /\ pos = Len(StreamElems(file.text))
    /\ spc' = "done"
    /\ UNCHANGED <<file, pos, yielded, fellBack, sraised, adapterVars, pipeVars, runVars, zipVars, normVars>>

\* _standard_parse: json.load; a caught exception ends the sequence, any other
\* reaches the caller.
StandardLoad ==
    /\ spc = "standard"
    /\ IF IsOk(json_load(file.text))
       THEN /\ spc' = "items"
            /\ UNCHANGED sraised
       ELSE /\ spc' = "done"
            /\ sraised' = IF json_load(file.text).exc \in StandardCaught THEN "none"
                          ELSE json_load(file.text).exc
    /\ pos' = 0
    /\ UNCHANGED <<file, yielded, fellBack, adapterVars, pipeVars, runVars, zipVars, normVars>>

\* _standard_parse: the next element of data; a dict is yielded.
StandardYield ==
    /\ spc = "items"
    /\ pos < Len(StandardElems(json_load(file.text).v))
    /\ pos' = pos + 1
    /\ yielded' = IF IsDict(StandardElems(json_load(file.text).v)[pos + 1])
                  THEN Append(yielded, StandardElems(json_load(file.text).v)[pos + 1])
                  ELSE yielded
    /\ UNCHANGED <<file, spc, fellBack, sraised, adapterVars, pipeVars, runVars, zipVars, normVars>>

\* _standard_parse returns.
StandardEnd ==
    /\ spc = "items"
    /\ pos = Len(StandardElems(json_load(file.text).v))
    /\ spc' = "done"
    /\ UNCHANGED <<file, pos, yielded, fellBack, sraised, adapterVars, pipeVars, runVars, zipVars, normVars>>

----------------------------------------------------------------------------
(* The files iter_json_array is run on *)

\* The most top-level elements of an array.
MaxElems == 3

Elems == {JDict([id |-> JAtom("a")]), JDict([id |-> JAtom("b")]), JNum(5)}

Texts ==
    { ArrayText(q) : q \in SeqsUpTo(Elems, MaxElems) }
    \cup { TruncatedText(q) : q \in SeqsUpTo(Elems, MaxElems) }
    \cup { NonFiniteText(q) : q \in SeqsUpTo(Elems, MaxElems - 1) }
    \cup { ValueText(doc) : doc \in Elems }
    \cup { BrokenText(kind) : kind \in {"deep", "binary", "unreadable"} }

InitStream ==
    /\ file \in { [size |-> size, text |-> text] :
                    size \in {1024, STREAMING_THRESHOLD, STREAMING_THRESHOLD + 1},
                    text \in Texts }
    /\ spc = "start"
    /\ pos = 0
    /\ yielded = <<>>
    /\ fellBack = FALSE
    /\ sraised = "none"
    /\ files = <<>>
    /\ ppc = "idle"
    /\ source = ""
    /\ praised = "none"
    /\ adapter = "none"
    /\ apc = "idle"
    /\ count = 0
    /\ conversations = <<>>
    /\ raised = "none"
    /\ rawConv = JNull
    /\ current_id = None
    /\ visited = <<>>
    /\ messages = <<>>
    /\ walkHow = ""
    /\ IdleRun
    /\ IdleZip
    /\ IdleNorm

NextStream ==
    \/ IterJsonArray
    \/ StreamYield
    \/ StreamFallback
    \/ StreamEnd
    \/ StandardLoad
    \/ StandardYield
    \/ StandardEnd

SpecStream == InitStream /\ [][NextStream]_vars

----------------------------------------------------------------------------
(* adapters/generic.py over a whole extracted directory: the JSON, HTML and
   plain-text strategies *)

\* A file that holds the characters chars: an HTML page or a plain text.  A
\* character is a one-character string; an HTML entity is one element.
Chars(chars) == [kind |-> "chars", chars |-> chars]

\* Path.stem
Stem(path) ==
    CASE path = "conversations.json" -> "conversations"
      [] path \in {"data.json", "export/data.json"} -> "data"
      [] path = "Takeout/GEMINI/log.json" -> "log"
      [] path = "grok/chats.json" -> "chats"
      [] path = "Gemini Apps/chat.html" -> "chat"
      [] path = "page.html" -> "page"
      [] path = "readme.txt" -> "readme"
      [] OTHER -> "notes"

\* extracted_dir.rglob("*" + suffix), in the order the directory lists them
RGlob(fs, suffix) == SelectSeq(fs, LAMBDA f : Suffix(f.path) = suffix)

\* open(filepath, encoding="utf-8") and json.load(fh): the whole file is read.
json_load_file(content) ==
    Bind(ReadText(content, IF content.kind = "json" THEN content.size ELSE 0),
         LAMBDA raw : json_loads(raw))

\* The exceptions the try of _try_json catches.
GenericCaught == {"JSONDecodeError", "OSError", "UnicodeDecodeError"}

\* _try_json(filepath)
generic_try_json_file(f) ==
    IF ~IsOk(json_load_file(f.content))
    THEN IF json_load_file(f.content).exc \in GenericCaught THEN Ok(<<>>)
         ELSE json_load_file(f.content)
    ELSE generic_try_json(json_load_file(f.content).v, JAtom(Stem(f.path)))

\* open(filepath, errors="replace") and fh.read(), for the files of these
\* directories: one that opens holds characters.
read_replace(content) ==
    IF content.kind = "unreadable" THEN Raise("OSError") ELSE Ok(content.chars)

\* html.unescape, on the entities of the inputs
Unescape(c) ==
    CASE c = "&lt;" -> "<"
      [] c = "&gt;" -> ">"
      [] c = "&amp;" -> "&"
      [] OTHER -> c

\* The index of the first ">" of s at or after i, or 0.
RECURSIVE FirstClose(_, _)
FirstClose(s, i) ==
    IF i > Len(s) THEN 0 ELSE IF s[i] = ">" THEN i ELSE FirstClose(s, i + 1)

\* re.sub(r"<[^>]+>", "", text): a "<", at least one character that is no
\* ">", and the first ">" after them.
RECURSIVE RemoveTags(_)
RemoveTags(s) ==
    IF s = <<>> THEN <<>>
    ELSE IF Head(s) = "<" /\ FirstClose(s, 2) >= 3
    THEN RemoveTags(SubSeq(s, FirstClose(s, 2) + 1, Len(s)))
    ELSE <<Head(s)>> \o RemoveTags(Tail(s))

\* re.sub(r"\n{3,}", "\n\n", text)
RECURSIVE CollapseNewlines(_)
CollapseNewlines(s) ==
    IF s = <<>> THEN <<>>
    ELSE IF Len(s) >= 3 /\ s[1] = "\n" /\ s[2] = "\n" /\ s[3] = "\n"
    THEN CollapseNewlines(Tail(s))
    ELSE <<Head(s)>> \o CollapseNewlines(Tail(s))

\* strip_html(text)
strip_html(text) ==
    Strip(CollapseNewlines(RemoveTags([i \in 1..Len(text) |-> Unescape(text[i])])))

\* The fewest characters of a page or a text that make a conversation.
MinChars == 50

\* The Conversation _try_html and _try_text build around one user message.
generic_single(stem, text, format) ==
    Conversation(sanitize_id(JAtom(stem)), "unknown", JAtom(stem), None, None,
                 <<Message("user", text, None, None, <<>>)>>,
                 [original_format |-> JAtom(format)])

\* _try_html(filepath): None or a Conversation
generic_try_html(f) ==
    IF ~IsOk(read_replace(f.content)) THEN None
    ELSE IF Len(strip_html(read_replace(f.content).v)) < MinChars THEN None
    ELSE generic_single(Stem(f.path), strip_html(read_replace(f.content).v), "html")

\* _try_text(filepath): None or a Conversation
generic_try_text(f) ==
    IF ~IsOk(read_replace(f.content)) THEN None
    ELSE IF Len(Strip(read_replace(f.content).v)) < MinChars THEN None
    ELSE generic_single(Stem(f.path), Strip(read_replace(f.content).v), "text")

\* q[1] + q[2] + ... for a sequence of lists
RECURSIVE Concat(_)
Concat(q) == IF q = <<>> THEN <<>> ELSE Head(q) \o Concat(Tail(q))

\* A parse() that goes on to the next strategy whatever it has found.
StrategyResult_NoReturn(convos, next) ==
    IF ~IsOk(convos) THEN Throw(convos.exc) /\ UNCHANGED conversations
    ELSE /\ conversations' = conversations \o convos.v
         /\ apc' = next
         /\ UNCHANGED raised

\* The end of one strategy of parse(): `if conversations: return conversations`,
\* else on to the strategy next.
StrategyResult(convos, next) ==
    IF ~IsOk(convos) THEN Throw(convos.exc) /\ UNCHANGED conversations
    ELSE /\ conversations' = conversations \o convos.v
         /\ apc' = IF conversations \o convos.v # <<>> THEN "done" ELSE next
         /\ UNCHANGED raised

\* parse(): the loop over the .json files, and the first return
GenericJson ==
    /\ adapter = "generic"
    /\ apc = "loop"
    /\ StrategyResult(Bind(Collect([i \in 1..Len(RGlob(files, ".json")) |->
                                      generic_try_json_file(RGlob(files, ".json")[i])]),
                           LAMBDA res : Ok(Concat(res))),
                      "html")
    /\ UNCHANGED <<adapter, count, rawConv, current_id, visited, messages, walkHow>>
    /\ UNCHANGED <<pipeVars, streamVars, runVars, zipVars, normVars>>

\* parse(): the loop over the .html files, and the second return
GenericHtml ==
    /\ adapter = "generic"
    /\ apc = "html"
    /\ StrategyResult(Ok(NotNone([i \in 1..Len(RGlob(files, ".html")) |->
                                    generic_try_html(RGlob(files, ".html")[i])])),
                      "text")
    /\ UNCHANGED <<adapter, count, rawConv, current_id, visited, messages, walkHow>>
    /\ UNCHANGED <<pipeVars, streamVars, runVars, zipVars, normVars>>

\* parse(): the loop over the .txt files, and the last return
GenericText ==
    /\ adapter = "generic"
    /\ apc = "text"
    /\ StrategyResult(Ok(NotNone([i \in 1..Len(RGlob(files, ".txt")) |->
                                    generic_try_text(RGlob(files, ".txt")[i])])),
                      "done")
    /\ UNCHANGED <<adapter, count, rawConv, current_id, visited, messages, walkHow>>
    /\ UNCHANGED <<pipeVars, streamVars, runVars, zipVars, normVars>>

----------------------------------------------------------------------------
(* The other adapters over a whole extracted directory.  The files here are
   below the streaming threshold, so iter_json_array takes _standard_parse. *)

\* What iter_json_array yields from a file, or the exception that leaves it.
iter_json_array(content) ==
    IF ~IsOk(json_load_file(content))
    THEN IF json_load_file(content).exc \in StandardCaught THEN Ok(<<>>)
         ELSE json_load_file(content)
    ELSE Ok(SelectSeq(StandardElems(json_load_file(content).v), IsDict))

\* Path.name
PathName(path) ==
    CASE path = "export/data.json" -> "data.json"
      [] path = "Takeout/GEMINI/log.json" -> "log.json"
      [] path = "grok/chats.json" -> "chats.json"
      [] path = "Gemini Apps/chat.html" -> "chat.html"
      [] OTHER -> path

\* How many directories lie between the extracted directory and the file.
PathDepth(path) ==
    CASE path \in {"export/data.json", "grok/chats.json", "Gemini Apps/chat.html"} -> 1
      [] path = "Takeout/GEMINI/log.json" -> 2
      [] OTHER -> 0

\* _find_conversations_json(directory): the file conversations.json of the
\* directory itself, else of one of its child directories, else None.
find_conversations_json(fs) ==
    LET found(depth) == SelectSeq(fs, LAMBDA f : /\ PathName(f.path) = "conversations.json"
                                                  /\ PathDepth(f.path) = depth)
    IN IF found(0) # <<>> THEN found(0)[1]
       ELSE IF found(1) # <<>> THEN found(1)[1]
       ELSE None

\* The characters _is_claude_json reads.
ClaudeWindow == 50000

\* The leading items _is_claude_json inspects.
ClaudeItems == 3

\* _is_claude_json(filepath): Ok(TRUE), Ok(FALSE) or the exception raised.
is_claude_json(f) ==
    LET data == Bind(ReadText(f.content, ClaudeWindow), LAMBDA raw : json_loads(raw))
    IN IF ~IsOk(data) THEN IF data.exc \in ProbeCaught THEN Ok(FALSE) ELSE data
       ELSE Ok(\E i \in 1..Len(Take(AsList(data.v), ClaudeItems)) :
                 /\ IsDict(AsList(data.v)[i])
                 /\ \/ "chat_messages" \in DOMAIN AsList(data.v)[i].v
                    \/ {"uuid", "name"} \subseteq DOMAIN AsList(data.v)[i].v)

\* The conversations parse() of claude appends from one .json file: none when
\* the file does not qualify.
claude_parse_file(f) ==
    Bind(is_claude_json(f), LAMBDA qualifies :
         IF ~qualifies THEN Ok(<<>>)
         ELSE Bind(iter_json_array(f.content), LAMBDA items :
              Bind(Collect([i \in 1..Len(items) |-> claude_parse_conversation(items[i])]),
                   LAMBDA res : Ok(NotNone(res)))))

\* _parse_json_file of gemini and of grok: a file that does not load gives [].
gemini_parse_file(f) ==
    IF ~IsOk(json_load_file(f.content))
    THEN IF json_load_file(f.content).exc \in GenericCaught THEN Ok(<<>>)
         ELSE json_load_file(f.content)
    ELSE gemini_parse_json_file(json_load_file(f.content).v)

grok_parse_file(f) ==
    IF ~IsOk(json_load_file(f.content))
    THEN IF json_load_file(f.content).exc \in GenericCaught THEN Ok(<<>>)
         ELSE json_load_file(f.content)
    ELSE grok_parse_json_file(json_load_file(f.content).v)

\* word in s, for two sequences of characters
Contains(s, word) ==
    \E i \in 1..(Len(s) - Len(word) + 1) : SubSeq(s, i, i + Len(word) - 1) = word

\* The check of _parse_html_file that the page is a Gemini conversation (the
\* pages here are in lower case).
MentionsGoogle(chars) ==
    \/ Contains(chars, <<"g", "e", "m", "i", "n", "i">>)
    \/ Contains(chars, <<"b", "a", "r", "d">>)
    \/ Contains(chars, <<"g", "o", "o", "g", "l", "e">>)

\* The shortest block of a page that makes a message is longer than this.
MinBlock == 10

\* _parse_html_file(filepath) on a page with no title, div or hr element: no
\* turn pattern matches and the page is one block, a user message.
gemini_parse_html_file(f) ==
    IF ~IsOk(read_replace(f.content)) THEN None
    ELSE IF ~MentionsGoogle(read_replace(f.content).v) THEN None
    ELSE IF ~(Len(strip_html(read_replace(f.content).v)) > MinBlock) THEN None
    ELSE Conversation(sanitize_id(JAtom(Stem(f.path))), "gemini", JAtom(Stem(f.path)), None, None,
                      <<Message("user", strip_html(read_replace(f.content).v), None, None, <<>>)>>,
                      <<>>)

\* The conversations of every .json file, by the per-file parser parse_file.
AllJson(fs, parse_file(_)) ==
    Bind(Collect([i \in 1..Len(RGlob(fs, ".json")) |-> parse_file(RGlob(fs, ".json")[i])]),
         LAMBDA res : Ok(Concat(res)))

\* parse() of chatgpt: the next raw conversation of conversations.json, or
\* the return when there is no such file or no further item.
ChatgptNext(items) ==
    IF ~IsOk(items)
    THEN /\ Throw(items.exc)
         /\ UNCHANGED <<adapter, count, conversations, rawConv, current_id, visited, messages,
                        walkHow, pipeVars, streamVars, runVars, zipVars, normVars>>
    ELSE IF count < Len(items.v) THEN ChatgptBegin(items.v[count + 1])
    ELSE ParseReturn

ChatgptDir ==
    /\ adapter = "chatgpt"
    /\ apc = "loop"
    /\ ChatgptNext(IF IsNone(find_conversations_json(files)) THEN Ok(<<>>)
                   ELSE iter_json_array(find_conversations_json(files).content))

\* parse() of claude
ClaudeDir ==
    /\ adapter = "claude"
    /\ apc = "loop"
    /\ ExtendAndReturn(AllJson(files, claude_parse_file))
    /\ UNCHANGED <<adapter, count, rawConv, current_id, visited, messages, walkHow>>
    /\ UNCHANGED <<pipeVars, streamVars, runVars, zipVars, normVars>>

\* parse() of gemini: the .json files, and the .html files when they gave
\* nothing
GeminiJson ==
    /\ adapter = "gemini"
    /\ apc = "loop"
    /\ StrategyResult(AllJson(files, gemini_parse_file), "html")
    /\ UNCHANGED <<adapter, count, rawConv, current_id, visited, messages, walkHow>>
    /\ UNCHANGED <<pipeVars, streamVars, runVars, zipVars, normVars>>

GeminiHtml ==
    /\ adapter = "gemini"
    /\ apc = "html"
    /\ conversations' = conversations
                        \o NotNone([i \in 1..Len(RGlob(files, ".html")) |->
                                      gemini_parse_html_file(RGlob(files, ".html")[i])])
    /\ apc' = "done"
    /\ UNCHANGED <<adapter, count, raised, rawConv, current_id, visited, messages, walkHow>>
    /\ UNCHANGED <<pipeVars, streamVars, runVars, zipVars, normVars>>

\* parse() of grok
GrokDir ==
    /\ adapter = "grok"
    /\ apc = "loop"
    /\ ExtendAndReturn(AllJson(files, grok_parse_file))
    /\ UNCHANGED <<adapter, count, rawConv, current_id, visited, messages, walkHow>>
    /\ UNCHANGED <<pipeVars, streamVars, runVars, zipVars, normVars>>

\* A parse() whose list of conversations outlives the call.
ParseEnter_KeepList ==
    /\ UNCHANGED conversations
    /\ count' = 0
    /\ raised' = "none"
    /\ apc' = "loop"
    /\ ResetWalk

\* parse() is entered: `conversations: List[Conversation] = []`, and every
\* other local is new.
ParseEnter ==
    /\ conversations' = <<>>
    /\ count' = 0
    /\ raised' = "none"
    /\ apc' = "loop"
    /\ ResetWalk

\* The caller keeps what the first call gave and calls parse() again on the
\* same directory.
Rerun ==
    /\ apc = "done"
    /\ run = 1
    /\ previous' = [conversations |-> conversations, raised |-> raised]
    /\ run' = 2
    /\ ParseEnter
    /\ UNCHANGED <<adapter, pipeVars, streamVars, zipVars, normVars>>

----------------------------------------------------------------------------
(* The directories the adapters are run on *)

\* The most files of a directory an adapter is run on.
MaxDirFiles == 2

\* n times the character c
Rep(c, n) == [i \in 1..n |-> c]

\* Pages: one with MinChars characters of text between tags, one with a
\* character less, one whose text stands between an escaped "<" and ">".
Pages ==
    { Chars(<<"<", "p", ">">> \o Rep("a", MinChars) \o <<"<", "/", "p", ">", "\n">>),
      Chars(<<"<", "p", ">">> \o Rep("a", MinChars - 1) \o <<"<", "/", "p", ">">>),
      Chars(<<"&lt;">> \o Rep("b", MinChars) \o <<"&gt;">>),
      Other("unreadable") }

\* Plain texts: MinChars characters, and one less between blanks.
PlainTexts ==
    { Chars(Rep("t", MinChars)),
      Chars(<<" ">> \o Rep("t", MinChars - 1) \o <<"\n">>),
      Other("unreadable") }

\* JSON files of an unknown provider: with a conversation, with a conversation
\* of one bare string, with none, and files that do not load.
GenericJsonContents ==
    { JsonText(doc, 100) :
        doc \in { JList(<<JDict([id |-> JAtom("c1"), title |-> JAtom("T"),
                                 messages |-> JList(<<JDict([role |-> JAtom("ai"),
                                                             content |-> JStr(<<"h", "i">>)])>>)])>>),
                  JDict([turns |-> JList(<<JStr(<<>>)>>)]),
                  JDict([messages |-> EmptyList]),
                  PlainDoc } }
    \cup { Other("truncated"), Other("deep"), Other("binary") }

\* A page that names Gemini.
GeminiPage == Chars(<<"<", "b", ">", "g", "e", "m", "i", "n", "i", " ">> \o Rep("a", MinBlock))

\* The JSON documents of each provider's export: well-formed ones, and ones
\* with a record the adapter drops or fails on.
ExportDocs(a) ==
    CASE a = "chatgpt" ->
           { JList(<<ChatgptConv(RawMessage("user", "text", <<Txt("1")>>), JList(<<JAtom("n2")>>))>>),
             JList(<<ChatgptConv(JNull, EmptyList),
                     ChatgptConv(RawMessage("tool", "code", <<Txt("x")>>), JNull)>>),
             JList(<<JNum(5),
                     ChatgptConv(JDict([author |-> JNull,
                                        content |-> JDict([parts |-> JList(<<Txt("1")>>)])]),
                                 EmptyList)>>) }
      [] a = "claude" ->
           { JList(<<JDict([uuid |-> JAtom("u"), name |-> JAtom("n"),
                            chat_messages |-> JList(LaterFirst)])>>),
             JDict([uuid |-> JAtom("u"), name |-> JAtom("n")]),
             JList(<<JDict([chat_messages |-> JNull])>>),
             PlainDoc }
      [] a = "gemini" ->
           { JList(<<JDict([id |-> JAtom("c1"),
                            messages |-> JList(<<JDict([role |-> JAtom("Model"),
                                                        text |-> Txt("a")])>>)])>>),
             JDict([turns |-> JList(<<JDict([role |-> JNum(5), content |-> Txt("x")])>>)]),
             PlainDoc }
      [] a = "grok" ->
           { JList(<<JDict([conversation_id |-> JAtom("a"), role |-> JAtom("user"),
                            text |-> Txt("2"), timestamp |-> JNum(2)]),
                     JDict([conversation_id |-> JAtom("b"), role |-> JAtom("user"),
                            text |-> Txt("x")]),
                     JDict([conversation_id |-> JAtom("a"), role |-> JAtom("user"),
                            text |-> Txt("1"), timestamp |-> JNum(1)])>>),
             JList(<<JDict([id |-> JAtom("c1"),
                            messages |-> JList(<<JDict([role |-> JAtom("user"),
                                                        text |-> Txt("q")])>>)])>>),
             PlainDoc }
      [] OTHER -> { c.doc : c \in {x \in GenericJsonContents : x.kind = "json"} }

\* The files of a directory the adapter a is run on.
AdapterDirFiles(a) ==
    { File(path, content) :
        path \in {"conversations.json", "export/data.json"},
        content \in {JsonText(doc, 100) : doc \in ExportDocs(a)}
                    \cup {Other("truncated"), Other("deep"), Other("binary")} }
    \cup { File("page.html", content) : content \in Pages \cup {GeminiPage} }
    \cup { File(path, content) : path \in {"notes.txt", "readme.txt"}, content \in PlainTexts }

\* The directories: up to MaxDirFiles files, no path twice.
DirsOf(fileset) ==
    { fs \in SeqsUpTo(fileset, MaxDirFiles) :
        \A i, j \in 1..Len(fs) : i # j => fs[i].path # fs[j].path }

InitDir ==
    /\ adapter \in Adapters
    /\ files \in DirsOf(AdapterDirFiles(adapter))
    /\ apc = "loop"
    /\ count = 0
    /\ conversations = <<>>
    /\ raised = "none"
    /\ rawConv = JNull
    /\ current_id = None
    /\ visited = <<>>
    /\ messages = <<>>
    /\ walkHow = ""
    /\ ppc = "idle"
    /\ source = ""
    /\ praised = "none"
    /\ file = JNull
    /\ spc = "idle"
    /\ pos = 0
    /\ yielded = <<>>
    /\ fellBack = FALSE
    /\ sraised = "none"
    /\ IdleRun
    /\ IdleZip
    /\ IdleNorm

NextDir ==
    \/ ChatgptDir
    \/ WalkStep
    \/ WalkStop
    \/ ChatgptEmit
    \/ ClaudeDir
    \/ GeminiJson
    \/ GeminiHtml
    \/ GrokDir
    \/ GenericJson
    \/ GenericHtml
    \/ GenericText
    \/ Rerun

SpecDir == InitDir /\ [][NextDir]_vars

----------------------------------------------------------------------------
(* utils/normalize.py: one call of unix_to_datetime or iso_to_datetime *)

\* The call returns or raises.
Call(outcome) ==
    /\ returned = JNull
    /\ returned' = outcome
    /\ UNCHANGED <<fn, arg, adapterVars, pipeVars, streamVars, runVars, zipVars>>

CallUnix == fn = "unix_to_datetime" /\ Call(unix_to_datetime(arg))

CallIso == fn = "iso_to_datetime" /\ Call(iso_to_datetime(arg))

CallClean == fn = "clean_content" /\ Call(clean_content(arg))

\* The latest epoch second among the inputs.
MaxEpoch == 3

\* The values a field of an export can hold: null, numbers in and out of
\* range, strings that are digits, blank, ISO-8601 (with Z, with an offset,
\* with neither) or neither, lists and objects.
FieldValues ==
    {JNull, JStr(<<>>), JStr(<<"x">>), JStr(<<"7">>), JStr(<<"1", "2">>), JAtom("abc"),
     JAtom("nan"), EmptyList, JList(<<JNum(1)>>), EmptyDict, JDict([a |-> JNum(1)])}
    \cup {JNum(n) : n \in -1..MaxEpoch}
    \cup {JBig(kind) : kind \in {"year10000", "huge", "inf", "nan", "bigint"}}
    \cup {JIso(n, zone) : n \in 0..MaxEpoch, zone \in {"Z", "+00:00", ""}}

\* The most parts of a content list.
MaxParts == 2

\* The parts of a content list: strings, objects with a text (a string, null,
\* a number, a list) or without, and values that are neither.
ContentParts ==
    { JStr(<<"a">>), JStr(<<" ">>), JDict([text |-> JStr(<<"b", " ">>)]),
      JDict([content_type |-> JAtom("x")]), JDict([text |-> JNull]), JDict([text |-> JNum(5)]),
      JDict([text |-> JList(<<JStr(<<"q">>)>>)]), JNum(5), JNull }

\* What a content field can hold: null, a string, a list of parts, or another
\* value.
ContentValues ==
    { JNull, JStr(<<>>), JStr(<<" ", "a", " ">>), JNum(5), JDict([a |-> JNum(1)]) }
    \cup { JList(q) : q \in SeqsUpTo(ContentParts, MaxParts) }

InitNormalize ==
    /\ \/ fn \in {"unix_to_datetime", "iso_to_datetime"} /\ arg \in FieldValues
       \/ fn = "clean_content" /\ arg \in ContentValues
    /\ returned = JNull
    /\ adapter = "none"
    /\ apc = "idle"
    /\ count = 0
    /\ conversations = <<>>
    /\ raised = "none"
    /\ rawConv = JNull
    /\ current_id = None
    /\ visited = <<>>
    /\ messages = <<>>
    /\ walkHow = ""
    /\ files = <<>>
    /\ ppc = "idle"
    /\ source = ""
    /\ praised = "none"
    /\ file = JNull
    /\ spc = "idle"
    /\ pos = 0
    /\ yielded = <<>>
    /\ fellBack = FALSE
    /\ sraised = "none"
    /\ IdleRun
    /\ IdleZip

NextNormalize == CallUnix \/ CallIso \/ CallClean

SpecNormalize == InitNormalize /\ [][NextNormalize]_vars

----------------------------------------------------------------------------
(* utils/unzip.py: extract_zip.  A path is the sequence of its components, a
   component a sequence of characters; the filename of a member is relative
   or absolute. *)

Member(absolute, parts) == [absolute |-> absolute, parts |-> parts]

DotDot == <<".", ".">>

\* (tmp_dir / filename).resolve(): an absolute filename replaces tmp_dir, a
\* ".." component leaves the directory reached so far.  The new directory holds
\* no link.
RECURSIVE Walk(_, _)
Walk(at, parts) ==
    IF parts = <<>> THEN at
    ELSE IF Head(parts) = DotDot
    THEN Walk(IF at = <<>> THEN at ELSE SubSeq(at, 1, Len(at) - 1), Tail(parts))
    ELSE Walk(Append(at, Head(parts)), Tail(parts))

Resolve(dir, filename) == Walk(IF filename.absolute THEN <<>> ELSE dir, filename.parts)

\* str(path)
RECURSIVE PathStr(_)
PathStr(path) ==
    IF path = <<>> THEN <<>> ELSE <<"/">> \o Head(path) \o PathStr(Tail(path))

\* s.startswith(prefix)
StartsWith(s, prefix) == Len(prefix) <= Len(s) /\ SubSeq(s, 1, Len(prefix)) = prefix

\* The guard of extract_zip lets the member through.
GuardPasses(dir, filename) == StartsWith(PathStr(Resolve(dir, filename)), PathStr(dir))

\* One iteration of the loop over zf.infolist().
GuardMember ==
    /\ zpc = "guard"
    /\ member < Len(zip_path)
    /\ IF GuardPasses(tmp_dir, zip_path[member + 1])
       THEN /\ member' = member + 1
            /\ UNCHANGED <<zpc, zraised>>
       ELSE /\ zraised' = "ValueError"
            /\ zpc' = "rejected"
            /\ UNCHANGED member
    /\ ended' = IF GuardPasses(tmp_dir, zip_path[member + 1]) THEN ended ELSE "rejected"
    /\ UNCHANGED <<zip_path, tmp_dir, entry, ondisk, adapterVars, pipeVars, streamVars,
                   runVars, normVars>>

\* Every member has passed: zf.extractall(tmp_dir) and the return.
ExtractAll ==
    /\ zpc = "guard"
    /\ member = Len(zip_path)
    /\ zpc' = "done"
    /\ UNCHANGED <<zip_path, tmp_dir, member, zraised, entry, ondisk, ended, adapterVars,
                   pipeVars, streamVars, runVars, normVars>>

\* The entry points of core/pipeline.py: each calls extract_zip (the two on
\* bytes through extract_zip_from_bytes) and then runs detection, parsing and
\* rendering inside try ... finally.
EntryPoints ==
    {"convert_zip", "convert_zip_bytes", "convert_zip_to_vault", "convert_zip_bytes_to_vault"}

\* How the try block ends: files written, no conversation found (the early
\* return), or an exception from detection, parsing or rendering.
TryOutcomes == {"written", "empty", "detect", "parse", "render"}

\* The exception that leaves the try block, if any.
TryRaises(how) ==
    CASE how = "detect" -> "RecursionError"
      [] how = "parse" -> "TypeError"
      [] how = "render" -> "OSError"
      [] OTHER -> "none"

\* extract_zip has returned extracted_dir; the try block of the entry point runs
\* and ends in one of these ways.
TryBlock ==
    /\ zpc = "done"
    /\ \E how \in TryOutcomes :
          /\ ended' = how
          /\ zraised' = TryRaises(how)
    /\ zpc' = "finally"
    /\ UNCHANGED <<zip_path, tmp_dir, member, entry, ondisk, adapterVars, pipeVars, streamVars,
                   runVars, normVars>>

\* finally: shutil.rmtree(extracted_dir, ignore_errors=True); the call ends.
Finally ==
    /\ zpc = "finally"
    /\ ondisk' = ondisk \ {tmp_dir}
    /\ zpc' = "ended"
    /\ UNCHANGED <<zip_path, tmp_dir, member, zraised, entry, ended, adapterVars, pipeVars,
                   streamVars, runVars, normVars>>

\* The most members of an archive.
MaxMembers == 2

\* The directory that holds the extraction directories, and the names mkdtemp
\* may give: the prefix and a random suffix.
TempRoot == <<"t", "m", "p">>
Names == {<<"c", "e", "_", "a">>, <<"c", "e", "_", "b">>}

\* Member filenames: inside the directory, above it, absolute, and into a
\* directory beside it.
Filenames ==
    { Member(FALSE, <<<<"f">>>>),
      Member(FALSE, <<<<"d">>, DotDot, <<"f">>>>),
      Member(FALSE, <<DotDot, <<"e">>>>),
      Member(FALSE, <<DotDot>>),
      Member(TRUE, <<<<"e", "t", "c">>, <<"e">>>>),
      Member(FALSE, <<<<"d">>, DotDot, DotDot, <<"c", "e", "_", "a", "x">>, <<"e">>>>) }
    \cup { Member(FALSE, <<DotDot, name, <<"e">>>>) : name \in Names }
    \cup { Member(FALSE, <<DotDot, Append(name, "x"), <<"e">>>>) : name \in Names }

InitUnzip ==
    /\ zip_path \in SeqsUpTo(Filenames, MaxMembers)
    /\ tmp_dir \in {<<TempRoot, name>> : name \in Names}
    /\ zpc = "guard"
    /\ member = 0
    /\ zraised = "none"
    /\ entry \in EntryPoints
    /\ ondisk = {tmp_dir}
    /\ ended = ""
    /\ adapter = "none"
    /\ apc = "idle"
    /\ count = 0
    /\ conversations = <<>>
    /\ raised = "none"
    /\ rawConv = JNull
    /\ current_id = None
    /\ visited = <<>>
    /\ messages = <<>>
    /\ walkHow = ""
    /\ files = <<>>
    /\ ppc = "idle"
    /\ source = ""
    /\ praised = "none"
    /\ file = JNull
    /\ spc = "idle"
    /\ pos = 0
    /\ yielded = <<>>
    /\ fellBack = FALSE
    /\ sraised = "none"
    /\ IdleRun
    /\ IdleNorm

NextUnzip == GuardMember \/ ExtractAll \/ TryBlock \/ Finally

SpecUnzip == InitUnzip /\ [][NextUnzip]_vars

----------------------------------------------------------------------------
(* What the walk is to return, stated on the tree itself *)

WalkMapping == rawConv.v.mapping

\* The claimed root: the first node in dictionary order whose parent is null
\* or not a key of the mapping; 0 when there is none.
RootIndex(mapping) ==
    LET cands == {i \in 1..Len(mapping.ord) :
                    LET p == mapping.v[mapping.ord[i]].v.parent
                    IN p = JNull \/ p.v \notin DOMAIN mapping.v}
    IN IF cands = {} THEN 0 ELSE CHOOSE i \in cands : \A j \in cands : i <= j

\* The ids on the path id, children[0] of id, ... up to a leaf, an id absent
\* from the mapping, or an id already on the path.
RECURSIVE FirstChildPath(_, _, _)
FirstChildPath(mapping, id, seen) ==
    LET ch == mapping.v[id].v.children.v
    IN IF ch = <<>> \/ ch[1].v \notin DOMAIN mapping.v \/ ch[1].v \in seen \cup {id}
       THEN <<id>>
       ELSE <<id>> \o FirstChildPath(mapping, ch[1].v, seen \cup {id})

\* The message a tree node stands for: none without a payload or without text.
ExpectedOfNode(mapping, id) ==
    IF mapping.v[id].v.message = TreeMessage(id, "text")
    THEN <<Message(NodeRole(id), NodeText(id), None, None, <<>>)>>
    ELSE <<>>

RECURSIVE ExpectedOfPath(_, _)
ExpectedOfPath(mapping, path) ==
    IF path = <<>> THEN <<>>
    ELSE ExpectedOfNode(mapping, Head(path)) \o ExpectedOfPath(mapping, Tail(path))

ExpectedWalk(mapping) ==
    ExpectedOfPath(mapping,
                   FirstChildPath(mapping, mapping.ord[RootIndex(mapping)], {}))

NoDuplicates(q) == \A i, j \in 1..Len(q) : q[i] = q[j] => i = j

\* The visited ids that are keys of the mapping, in visiting order.
RECURSIVE VisitedNodes(_, _)
VisitedNodes(mapping, q) ==
    IF q = <<>> THEN <<>>
    ELSE IF InMapping(Head(q), mapping)
         THEN <<Head(q).v>> \o VisitedNodes(mapping, Tail(q))
         ELSE VisitedNodes(mapping, Tail(q))

\* C3: when the mapping has a root, the conversation's message list is exactly
\* the messages of the nodes on the first-child path from the root, in path
\* order; nodes off that path (reachable only through a later child, or not at
\* all) contribute nothing.
C3_FirstChildWalk ==
    (apc = "emit" /\ RootIndex(WalkMapping) # 0) =>
        LET conv == chatgpt_finish_conversation(rawConv, messages)
        IN /\ walkHow # "flat"
           /\ IsOk(conv)
           /\ conv.v.messages = ExpectedWalk(WalkMapping)

\* C3 witness: n1 has the children n2, n3; n3 carries a text; the walk returned
\* two messages (those of n1 and n2), so n3's was left out.
C3_Witness ==
    /\ apc = "emit"
    /\ walkHow = "leaf"
    /\ WalkMapping.v["n1"].v.children = JList(<<JAtom("n2"), JAtom("n3")>>)
    /\ WalkMapping.v["n3"].v.message = TreeMessage("n3", "text")
    /\ Len(messages) = 2
    /\ messages[1].content = <<"1">>
    /\ messages[2].content = <<"2">>

\* C4: the walk visits no node twice, makes at most one step per node plus one
\* for an absent id, and when it stops at a revisit or at an absent id it
\* returns exactly the messages of the nodes visited until then.
C4_WalkTerminates ==
    /\ NoDuplicates(visited)
    /\ apc \in {"walk", "emit"} =>
          Len(VisitedNodes(WalkMapping, visited)) >= Len(visited) - 1
    /\ (apc = "emit" /\ walkHow \in {"revisit", "missing"}) =>
          /\ messages = ExpectedOfPath(WalkMapping, VisitedNodes(WalkMapping, visited))
          /\ VisitedNodes(WalkMapping, visited) =
                FirstChildPath(WalkMapping, WalkMapping.ord[RootIndex(WalkMapping)], {})

\* C4 witness: the walk went n1, n2, n3 and stopped because n3's first child
\* had been visited; all three messages were returned.
C4_Witness ==
    /\ apc = "emit"
    /\ walkHow = "revisit"
    /\ Len(visited) = 3
    /\ Len(messages) = 3

----------------------------------------------------------------------------
(* The adapters' output contract *)

\* C1: for every adapter and every input, no Conversation in the list parse
\* has built has an empty message list.
C1_NoEmptyConversation ==
    \A i \in 1..Len(conversations) : conversations[i].messages # <<>>

\* C2: for every adapter and every input, every Message of every Conversation
\* parse has built has non-empty content.
C2_NoEmptyContent ==
    \A i \in 1..Len(conversations) :
        \A j \in 1..Len(conversations[i].messages) :
            conversations[i].messages[j].content # <<>>

\* C6: on syntactically valid JSON whose records have missing, null or wrongly
\* typed fields, no exception leaves parse.
C6_NeverRaises == raised = "none"

----------------------------------------------------------------------------
(* Detection and dispatch *)

\* A directory with one file, at a path that names no provider.
OnlyFile(content) ==
    Len(files) = 1 /\ files[1].path = "conversations.json" /\ files[1].content = content

\* C5: for each provider key detect_source returns, the call
\* parse(extracted_dir, progress_callback=log) the pipeline makes is accepted by
\* the registered adapter: no error leaves the dispatch.
C5_DispatchAccepted ==
    (ppc \in {"parsing", "failed"} /\ source # "") => praised = "none"

\* C7: on a directory whose only file is a JSON array whose first element has
\* an object-valued mapping, detect_source returns chatgpt, whatever the length
\* of the file.
C7_DetectsAnyLength ==
    \A size \in {100, ProbeWindow, ProbeWindow + 1} :
        (OnlyFile(JsonText(ChatgptDoc, size)) /\ ppc # "detect") => source = "chatgpt"

\* C8: on every directory, with unreadable, non-UTF-8, truncated or invalid
\* files in it, detect_source raises no exception and returns one of the five
\* provider keys.
C8_DetectNeverRaises ==
    ppc # "detect" => source \in {"chatgpt", "claude", "gemini", "grok", "unknown"}

----------------------------------------------------------------------------
(* The streaming ingester *)

\* The dicts among a sequence of elements.
RECURSIVE DictsOf(_)
DictsOf(q) ==
    IF q = <<>> THEN <<>>
    ELSE IF IsDict(Head(q)) THEN <<Head(q)>> \o DictsOf(Tail(q))
    ELSE DictsOf(Tail(q))

\* C9: for a file that holds a valid JSON document, a top-level array or a
\* single top-level object, the sequence iter_json_array has yielded when it
\* ends is the sequence of dict items of the whole-file parse, on either side
\* of the threshold.
C9_SameItems ==
    (spc = "done" /\ file.text.kind \in {"array", "value"}) =>
        yielded = DictsOf(StandardElems(json_load(file.text).v))

\* C10: when the incremental parse fails, iter_json_array falls back to the
\* whole-file parse; when that fails too, nothing was yielded and no exception
\* reaches the caller.
C10_FallbackEndsEmpty ==
    (spc = "done" /\ file.size > STREAMING_THRESHOLD /\ StreamFails(file.text)) =>
        /\ fellBack
        /\ ~IsOk(json_load(file.text)) => (yielded = <<>> /\ sraised = "none")

----------------------------------------------------------------------------
(* The generic adapter's strategies *)

\* The conversations of q that the strategy format ("html" or "text") built.
DerivedFrom(q, format) ==
    SelectSeq(q, LAMBDA c : c.metadata = [original_format |-> JAtom(format)])

\* Whether one of the files with this suffix yields a conversation on its own.
JsonYields == \E i \in 1..Len(files) :
    /\ Suffix(files[i].path) = ".json"
    /\ IsOk(generic_try_json_file(files[i]))
    /\ generic_try_json_file(files[i]).v # <<>>

HtmlYields == \E i \in 1..Len(files) :
    Suffix(files[i].path) = ".html" /\ ~IsNone(generic_try_html(files[i]))

\* C11: when the generic adapter returns, a directory in which a .json file
\* yields a conversation gives no HTML-derived and no text-derived
\* conversation, and one in which no .json file but an .html file yields a
\* conversation gives no text-derived conversation.
C11_FirstStrategyWins ==
    (adapter = "generic" /\ apc = "done" /\ raised = "none") =>
        /\ JsonYields => (DerivedFrom(conversations, "html") = <<>>
                          /\ DerivedFrom(conversations, "text") = <<>>
                          /\ conversations # <<>>)
        /\ (~JsonYields /\ HtmlYields) => (DerivedFrom(conversations, "text") = <<>>
                                           /\ DerivedFrom(conversations, "html") # <<>>)

\* C11 witness: the adapter has returned from a directory with a .json file
\* that yields a conversation and an .html file that would yield one too.
C11_Witness ==
    /\ adapter = "generic" /\ apc = "done" /\ raised = "none"
    /\ JsonYields /\ HtmlYields
    /\ conversations # <<>>

----------------------------------------------------------------------------
(* The Claude adapter's message list *)

\* The role the claim gives a sender.
ClaimedRole(sender) ==
    CASE sender = JAtom("human") -> "user"
      [] sender = JAtom("assistant") -> "assistant"
      [] sender = JAtom("system") -> "system"
      [] OTHER -> "assistant"

\* The entries of chat_messages that are objects with a non-empty text, in
\* the given order, each by its claimed role, its text and its created_at.
RECURSIVE ClaimedClaude(_)
ClaimedClaude(q) ==
    IF q = <<>> THEN <<>>
    ELSE IF IsDict(Head(q)) /\ IsOk(claude_text(Head(q))) /\ claude_text(Head(q)).v # <<>>
    THEN <<[role |-> ClaimedRole(Get(Head(q), "sender", JAtom(""))),
            content |-> claude_text(Head(q)).v,
            created_at |-> Get(Head(q), "created_at", None)]>> \o ClaimedClaude(Tail(q))
    ELSE ClaimedClaude(Tail(q))

\* A created_at of the output, as the raw value it was parsed from.
RawStamp(created_at) ==
    IF IsNone(created_at) THEN None
    ELSE JIso(created_at.epoch, IF created_at.aware THEN "Z" ELSE "")

RolesAndTexts(msgs) ==
    [i \in 1..Len(msgs) |->
        [role |-> msgs[i].role, content |-> msgs[i].content,
         created_at |-> RawStamp(msgs[i].created_at)]]

\* C12: every conversation the Claude adapter emits holds, in the order of
\* chat_messages and never reordered, the entries with a non-empty text, with
\* sender human as user, assistant as assistant, system as system and any
\* other sender as assistant.
C12_ClaudeOrder ==
    [][\A raw \in RawConvs("chat_messages") :
          (ClaudeStep(raw) /\ conversations' # conversations) =>
              RolesAndTexts(conversations'[Len(conversations')].messages)
                  = ClaimedClaude(Get(raw, "chat_messages", EmptyList).v)]_vars

\* C12 witness: the adapter has emitted a conversation of two messages whose
\* first is the later one, the second from a sender outside its table.
C12_Witness ==
    /\ adapter = "claude"
    /\ \E i \in 1..Len(conversations) :
         /\ Len(conversations[i].messages) = 2
         /\ \A j \in 1..2 : ~IsNone(conversations[i].messages[j].created_at)
         /\ conversations[i].messages[1].created_at.epoch
               > conversations[i].messages[2].created_at.epoch
         /\ conversations[i].messages[2].role = "assistant"

----------------------------------------------------------------------------
(* The generic adapter's roles *)

\* The raw role the claim reads: the first non-empty of role, sender, author
\* and from, lower-cased; the empty string when there is none.
ClaimedRawRole(m) ==
    LET present == SelectSeq(<<"role", "sender", "author", "from">>,
                             LAMBDA k : k \in DOMAIN m.v /\ Truthy(m.v[k]))
    IN IF present = <<>> THEN "" ELSE Lower(m.v[present[1]].v)

\* The role the claim gives it.
ClaimedGenericRole(m) ==
    CASE ClaimedRawRole(m) \in {"user", "human"} -> "user"
      [] ClaimedRawRole(m) \in {"assistant", "ai", "bot", "model", "grok"} -> "assistant"
      [] ClaimedRawRole(m) = "system" -> "system"
      [] OTHER -> IF ContainsUser(ClaimedRawRole(m)) THEN "user" ELSE "assistant"

\* C13: the generic adapter parses an object that holds one dict message into
\* one conversation of one message, whose role is the synonym-map image of
\* the lower-cased first non-empty of role, sender, author and from, an
\* unmapped role giving user when it contains "user" and assistant otherwise;
\* so {messages: [{role: ai, content: hi}]} gives role assistant, content hi.
C13_GenericRole ==
    [][\A m \in RoleMsgs :
          GenericParse(RoleFile(m)) =>
              /\ raised' = "none"
              /\ Len(conversations') = Len(conversations) + 1
              /\ conversations'[Len(conversations')].messages
                    = <<PlainMessage(ClaimedGenericRole(m), <<"h", "i">>, None)>>]_vars

\* C13 witness: the generic adapter has returned a conversation whose one
\* message has the role assistant and the content hi.
C13_Witness ==
    /\ adapter = "generic"
    /\ apc = "done"
    /\ Len(conversations) = 1
    /\ conversations[1].title = JAtom("export")
    /\ conversations[1].messages = <<PlainMessage("assistant", <<"h", "i">>, None)>>

----------------------------------------------------------------------------
(* A second run on the same directory *)

----------------------------------------------------------------------------
(* The roles of the output *)

\* C15: every message of every conversation an adapter has built has a role
\* among user, assistant, system and tool, whatever the raw message was.
C15_RoleClosed ==
    \A i \in 1..Len(conversations) :
        \A j \in 1..Len(conversations[i].messages) :
            conversations[i].messages[j].role \in {"user", "assistant", "system", "tool"}

----------------------------------------------------------------------------
(* The timestamp parsers *)

\* C16: a call of unix_to_datetime or of iso_to_datetime, on any value a
\* field can hold, returns a datetime or None: it never raises.
C16_ParsersNeverRaise ==
    fn \in {"unix_to_datetime", "iso_to_datetime"} /\ returned # JNull =>
        /\ IsOk(returned)
        /\ returned.v.t \in {"null", "datetime"}

----------------------------------------------------------------------------
(* The timestamps of the output *)

\* C17: every created_at present on a conversation or a message an adapter
\* has built is timezone-aware, whether it came from epoch seconds or from an
\* ISO-8601 string, with a Z, with an offset or with neither.
C17_AwareStamps ==
    \A i \in 1..Len(conversations) :
        /\ ~IsNone(conversations[i].created_at) => conversations[i].created_at.aware
        /\ \A j \in 1..Len(conversations[i].messages) :
              ~IsNone(conversations[i].messages[j].created_at)
                  => conversations[i].messages[j].created_at.aware

----------------------------------------------------------------------------
(* The guard of extract_zip *)

\* Whether path lies in dir or is dir itself, component by component.
Within(path, dir) == Len(dir) <= Len(path) /\ SubSeq(path, 1, Len(dir)) = dir

\* C18: extract_zip returns only from an archive all of whose members
\* resolve to a path in the extraction directory; a member that resolves
\* outside it, be it into a directory beside it whose name begins with the
\* extraction directory's name, makes extract_zip raise.
C18_TraversalRejected ==
    zpc = "done" =>
        \A i \in 1..Len(zip_path) : Within(Resolve(tmp_dir, zip_path[i]), tmp_dir)

----------------------------------------------------------------------------
(* The order of the checks of detect_source *)

\* Some relative path of the directory holds word, in any case.
SomePath(word) == \E i \in 1..Len(files) : PathMentions(word, PathLower(files[i].path))

\* The i-th file is a .json file whose schema verdict is verdict.
Verdict(i, verdict) ==
    /\ Suffix(files[i].path) = ".json"
    /\ probe_json_schema(files[i]) = Ok(verdict)

\* The i-th file is the first .json file with a verdict other than "unknown".
FirstVerdict(i) ==
    /\ Suffix(files[i].path) = ".json"
    /\ IsOk(probe_json_schema(files[i]))
    /\ probe_json_schema(files[i]).v # "unknown"
    /\ \A j \in 1..(i - 1) : Suffix(files[j].path) = ".json" => Verdict(j, "unknown")

\* Every .json file has the verdict "unknown".
NoVerdict == \A i \in 1..Len(files) : Suffix(files[i].path) = ".json" => Verdict(i, "unknown")

\* Some .html file passes the HTML probe.
SomeGeminiPage ==
    \E i \in 1..Len(files) : Suffix(files[i].path) = ".html" /\ probe_html_for_gemini(files[i])

\* C19: detect_source checks, in this order, a path that holds gemini, a path
\* that holds grok, the schema of the .json files, the HTML probe, and returns
\* at the first match: a gemini path gives gemini whatever else the directory
\* holds, a grok path overrides every schema verdict, the first .json file with
\* a verdict decides next, and the HTML probe decides only when no .json file
\* has a verdict.  A path match returns before any file is opened.
C19_DetectionOrder ==
    /\ source # "" =>
          /\ SomePath("gemini") => source = "gemini"
          /\ ~SomePath("gemini") /\ SomePath("grok") => source = "grok"
          /\ ~SomePath("gemini") /\ ~SomePath("grok") =>
                /\ \A i \in 1..Len(files) :
                      FirstVerdict(i) => source = probe_json_schema(files[i]).v
                /\ NoVerdict => source = IF SomeGeminiPage THEN "gemini" ELSE "unknown"
    /\ (SomePath("gemini") \/ SomePath("grok")) /\ ppc # "detect" => source # ""

\* C19: detection has returned gemini for a directory with a gemini path and a
\* grok path whose file has the ChatGPT schema.
C19_Witness ==
    /\ source = "gemini"
    /\ SomePath("gemini")
    /\ \E i \in 1..Len(files) :
          /\ PathMentions("grok", PathLower(files[i].path))
          /\ Verdict(i, "chatgpt")

----------------------------------------------------------------------------
(* The priority of the rules of _probe_json_schema *)

\* The directory is one .json file, read whole, that no path check matches.
OneJsonFile ==
    /\ Len(files) = 1
    /\ Suffix(files[1].path) = ".json"
    /\ ~SomePath("gemini") /\ ~SomePath("grok")
    /\ files[1].content.kind = "json"
    /\ files[1].content.size <= ProbeWindow

\* One of the first ProbeItems items of doc is an object whose mapping is an
\* object.
HasMapping(doc) ==
    LET items == Take(AsList(doc), ProbeItems)
    IN \E i \in 1..Len(items) :
          /\ IsDict(items[i])
          /\ "mapping" \in DOMAIN items[i].v
          /\ IsDict(items[i].v["mapping"])

\* C20: the verdict of a .json file is chatgpt whenever one of its first five
\* items has an object-valued mapping, also when an earlier item has a Claude
\* or a Grok marker only.
C20_MappingFirst ==
    source # "" /\ OneJsonFile /\ HasMapping(files[1].content.doc) => source = "chatgpt"

----------------------------------------------------------------------------
(* The fallback of the walk for a mapping with no root *)

\* The creation time the messages are to be sorted by, a missing one as zero.
ClaimedTime(m) == IF IsNone(m.created_at) THEN 0 ELSE m.created_at.epoch

\* The texts of q whose creation time is time, in the order of q.
TextsAt(q, time) ==
    LET F[i \in 0..Len(q)] ==
            IF i = 0 THEN <<>>
            ELSE IF ClaimedTime(q[i]) = time THEN Append(F[i - 1], q[i].content) ELSE F[i - 1]
    IN F[Len(q)]

\* The message of each node of raw's mapping, in the mapping's order.
NodeMessages(raw) ==
    LET nodes == ValuesOf(Get(raw, "mapping", EmptyDict))
    IN [i \in 1..Len(nodes) |-> chatgpt_extract_message(nodes[i]).v]

\* C21: for a mapping with no root the adapter raises nothing and takes the
\* messages of all nodes sorted by creation time ascending, a message with no
\* timestamp as if its time were zero, whatever mix of timestamped and
\* untimestamped messages the mapping holds.
C21_FlatSorted ==
    [][\A raw \in FlatConvs :
          ChatgptBegin(raw) =>
              /\ raised' = "none"
              /\ walkHow' = "flat"
              /\ Len(messages') = Len(NodeMessages(raw))
              /\ \A i \in 1..(Len(messages') - 1) :
                    ClaimedTime(messages'[i]) <= ClaimedTime(messages'[i + 1])
              /\ \A time \in 0..2 :
                    TextsAt(messages', time) = TextsAt(NodeMessages(raw), time)]_vars

----------------------------------------------------------------------------
(* The model of a ChatGPT conversation and of its messages *)

\* The first truthy value of q, the empty string when there is none.
RECURSIVE FirstPopulated(_)
FirstPopulated(q) ==
    IF q = <<>> THEN JAtom("")
    ELSE IF Head(q) \notin {JNull, JAtom("")} THEN Head(q)
    ELSE FirstPopulated(Tail(q))

\* The model_slug of the message of the node id of raw.
OwnSlug(raw, id) == raw.v.mapping.v[id].v.message.v.metadata.v.model_slug

\* The claimed model: the default, else the legacy field, else the first
\* populated model_slug over the nodes in dictionary order.
ClaimedModel(raw) ==
    FirstPopulated(<<raw.v.default_model_slug, raw.v.model_slug,
                     OwnSlug(raw, "n1"), OwnSlug(raw, "n2"), OwnSlug(raw, "n3")>>)

\* The claimed model of an emitted message that came with the model_slug own.
ClaimedMessageModel(role, own, model) ==
    IF own # JNull THEN own
    ELSE IF role = "assistant" /\ model # JAtom("") THEN model
    ELSE None

\* C22: the conversation appended for a ChatGPT conversation has the model
\* default_model_slug, else model_slug, else the first populated model_slug
\* over all nodes in dictionary order; an assistant message without a
\* model_slug of its own carries that model when it is not empty, a message
\* with its own keeps it, other messages are unchanged, and metadata's model is
\* the resolved model.
C22_ModelResolved ==
    [][ChatgptEmit /\ rawConv \in ModelConvs =>
          /\ raised' = "none"
          /\ Len(conversations') = 1
          /\ LET conv == conversations'[1]
                 model == ClaimedModel(rawConv)
             IN /\ conv.model = model
                /\ Len(conv.messages) = 2
                /\ conv.messages[1] =
                      [messages[1] EXCEPT
                         !.model = ClaimedMessageModel("user", OwnSlug(rawConv, "n1"), model)]
                /\ conv.messages[2] =
                      [messages[2] EXCEPT
                         !.model = ClaimedMessageModel("assistant", OwnSlug(rawConv, "n2"), model)]
                /\ model # JAtom("") => conv.metadata = [model |-> model]
                /\ model = JAtom("") => conv.metadata = <<>>]_vars

\* C22: a conversation with no model field of its own has been appended with
\* the model of a node the walk did not visit, and its assistant message, which
\* came without a model_slug, carries that model.
C22_Witness ==
    /\ Len(conversations) = 1
    /\ conversations[1].model = JAtom("m3")
    /\ conversations[1].metadata = [model |-> JAtom("m3")]
    /\ Len(conversations[1].messages) = 2
    /\ conversations[1].messages[1].role = "user"
    /\ conversations[1].messages[1].model = None
    /\ conversations[1].messages[2].role = "assistant"
    /\ conversations[1].messages[2].model = JAtom("m3")

----------------------------------------------------------------------------
(* The flat message list of a Grok export *)

\* The raw messages of q that have a text.
WithText(q) == SelectSeq(q, LAMBDA m : grok_text(m) # Ok(<<>>))

\* The raw messages of q of the conversation cid.
OfConversation(q, cid) == SelectSeq(q, LAMBDA m : m.v.conversation_id = cid)

\* The value the messages are ordered by: timestamp, else created_at; -1 for a
\* message with neither, which sorts first.
ClaimedStamp(m) ==
    IF "timestamp" \in DOMAIN m.v THEN m.v.timestamp.v
    ELSE IF "created_at" \in DOMAIN m.v THEN 10 + m.v.created_at.epoch
    ELSE -1

\* q in non-decreasing order of ClaimedStamp, ties in the order of q.
RECURSIVE ClaimedOrder(_)
ClaimedOrder(q) ==
    IF q = <<>> THEN <<>>
    ELSE LET low == CHOOSE i \in 1..Len(q) :
                       /\ \A j \in 1..Len(q) : ClaimedStamp(q[i]) <= ClaimedStamp(q[j])
                       /\ \A j \in 1..(i - 1) : ClaimedStamp(q[j]) # ClaimedStamp(q[i])
         IN <<q[low]>> \o ClaimedOrder(SubSeq(q, 1, low - 1) \o SubSeq(q, low + 1, Len(q)))

\* The conversation ids of q that have a message with text.
ClaimedIds(q) == {WithText(q)[i].v.conversation_id : i \in 1..Len(WithText(q))}

\* C23: a flat Grok list gives, without raising, one conversation for each
\* conversation_id that has a message with text; each message with text is in
\* the conversation of its id exactly once; and the messages of a conversation
\* are in non-decreasing order of timestamp (else created_at), a message with
\* neither first and ties in input order, for every mix of present, missing,
\* string and numeric timestamps.
C23_FlatGrouped ==
    [][\A data \in FlatFiles :
          GrokParse(data) =>
              /\ raised' = "none"
              /\ Len(conversations') = Cardinality(ClaimedIds(data.v))
              /\ \A cid \in ClaimedIds(data.v) :
                    \E i \in 1..Len(conversations') :
                       /\ conversations'[i].id = sanitize_id(cid)
                       /\ LET expected ==
                                 ClaimedOrder(OfConversation(WithText(data.v), cid))
                          IN conversations'[i].messages =
                                [j \in 1..Len(expected) |-> grok_parse_message(expected[j]).v]]_vars

----------------------------------------------------------------------------
(* created_at of a conversation made from a flat Grok list *)

\* The instant the timestamp of a raw message resolves to: created_at as an
\* ISO-8601 string, else timestamp as epoch seconds; None when it has neither.
Resolved(m) ==
    IF "created_at" \in DOMAIN m.v THEN Dt(m.v.created_at.epoch, TRUE)
    ELSE IF "timestamp" \in DOMAIN m.v THEN Dt(m.v.timestamp.v, TRUE)
    ELSE None

\* The earliest of the instants the messages of q resolve to, None when none
\* resolves.
Earliest(q) ==
    LET stamps == {Resolved(q[i]) : i \in 1..Len(q)} \ {None}
    IN IF stamps = {} THEN None
       ELSE CHOOSE d \in stamps : \A e \in stamps : d.epoch <= e.epoch

\* C24: the created_at of each conversation made from a flat Grok list is the
\* earliest instant among the resolvable timestamps of the messages of its
\* conversation_id, and None only when none of them resolves.
C24_EarliestStamp ==
    [][\A data \in FlatFiles :
          GrokParse(data) /\ raised' = "none" =>
              \A i \in 1..Len(conversations') :
                 \A cid \in ClaimedIds(data.v) :
                    conversations'[i].id = sanitize_id(cid) =>
                       conversations'[i].created_at = Earliest(OfConversation(data.v, cid))]_vars

----------------------------------------------------------------------------
(* The two shapes of a Grok file *)

\* The message list of a conversation object.
MessageList(obj) == IF "messages" \in DOMAIN obj.v THEN obj.v.messages.v ELSE obj.v.turns.v

\* The conversation objects of q that have a message.
WithMessages(q) == SelectSeq(q, LAMBDA obj : MessageList(obj) # <<>>)

\* The id of a conversation object.
ObjectId(obj) == IF "id" \in DOMAIN obj.v THEN obj.v.id ELSE obj.v.conversation_id

\* C25: a Grok file that is a list of conversation objects, with their messages
\* under messages or under turns, gives one conversation for each object that
\* has a message, with the messages of its list in order, also when the
\* objects have a conversation_id.
C25_ConversationObjects ==
    [][\A data \in ConvFiles :
          GrokParse(data) =>
              /\ raised' = "none"
              /\ LET objs == WithMessages(data.v)
                 IN /\ Len(conversations') = Len(objs)
                    /\ \A i \in 1..Len(objs) :
                          /\ conversations'[i].id = sanitize_id(ObjectId(objs[i]))
                          /\ conversations'[i].messages =
                                [j \in 1..Len(MessageList(objs[i])) |->
                                   grok_parse_message(MessageList(objs[i])[j]).v]]_vars

----------------------------------------------------------------------------
(* clean_content *)

\* What a part of a content list contributes: a string itself, an object its
\* text, or its printed form when it has none; nothing for any other part.
RECURSIVE ClaimedParts(_)
ClaimedParts(q) ==
    IF q = <<>> THEN <<>>
    ELSE IF IsStr(Head(q)) THEN <<Head(q).v>> \o ClaimedParts(Tail(q))
    ELSE IF IsDict(Head(q))
    THEN <<IF "text" \in DOMAIN Head(q).v THEN StrOf(Head(q).v.text) ELSE StrOf(Head(q))>>
         \o ClaimedParts(Tail(q))
    ELSE ClaimedParts(Tail(q))

\* C26: clean_content returns a string for every input and never raises: the
\* empty string for None, the trimmed string for a string, and for a list its
\* parts joined by newline and trimmed, also when the text of an object part
\* is null or not a string and when a part is neither a string nor an object.
C26_CleanReturnsString ==
    fn = "clean_content" /\ returned # JNull =>
        /\ IsOk(returned)
        /\ IsNone(arg) => returned.v = <<>>
        /\ IsStr(arg) => returned.v = Strip(arg.v)
        /\ IsList(arg) => returned.v = Strip(Join(ClaimedParts(arg.v), NL))

----------------------------------------------------------------------------
(* No item twice *)

\* The complete elements of the top-level array of a file, in file order.
ArrayElems(text) ==
    IF text.kind = "nonfinite" THEN json_load(text).v.v ELSE text.elems

\* q is the beginning of r.
IsPrefix(q, r) == Len(q) <= Len(r) /\ SubSeq(r, 1, Len(q)) = q

\* C27: what iter_json_array has yielded is at every moment the beginning of
\* the dict elements of the file's top-level array: each element is yielded at
\* most once and in file order, also when the incremental parser fails after
\* it has yielded items and the whole-file parse then succeeds.
C27_AtMostOnce ==
    file # JNull /\ file.text.kind \in {"array", "truncated", "nonfinite"} =>
        IsPrefix(yielded, DictsOf(ArrayElems(file.text)))

----------------------------------------------------------------------------
(* The file detection decided on and the file the adapter reads *)

\* Detection has returned the verdict of the i-th file: no path check matched
\* and the file is the first .json file with a verdict.
DecidedBy(i) ==
    /\ source # ""
    /\ ~SomePath("gemini") /\ ~SomePath("grok")
    /\ FirstVerdict(i)

\* C28: when detect_source returns a key because of a JSON file, the adapter
\* registered for the key reads that file: for chatgpt the ChatGPT adapter
\* locates it, whatever its name and depth; for claude the Claude adapter
\* qualifies it as Claude data.
C28_AdapterReadsDetectedFile ==
    \A i \in 1..Len(files) :
       DecidedBy(i) =>
          /\ source = "chatgpt" => find_conversations_json(files) = files[i]
          /\ source = "claude" => is_claude_json(files[i]) = Ok(TRUE)

----------------------------------------------------------------------------
(* The extraction directory after the call *)

\* The call of the entry point has ended: it returned or an exception left it.
CallEnded == zpc \in {"ended", "rejected"}

\* C29: when a call of an entry point of the pipeline ends, by a return, with
\* no conversation, by an exception from detection, parsing or rendering, or by
\* an archive rejected during extraction, the directory extract_zip made
\* exists no more.
C29_NoTempDirLeft ==
    entry \in EntryPoints /\ CallEnded => tmp_dir \notin ondisk

----------------------------------------------------------------------------
(* Detection and the order of the directory walk *)

\* The sequences fs and gs list the same files.
SameFiles(fs, gs) ==
    Len(fs) = Len(gs) /\ {fs[i] : i \in 1..Len(fs)} = {gs[i] : i \in 1..Len(gs)}

\* C30: the verdict of detect_source depends on the set of files only: when
\* detection has returned a verdict, it returns the same verdict for every
\* order in which the directory walk can list the same files.
C30_WalkOrderIrrelevant ==
    source # "" =>
        \A gs \in Dirs : SameFiles(files, gs) => detect_source(gs) = Ok(source)

====
